---- MODULE Spec2Model ----
(***************************************************************************)
(* Verification model of the team-management backend: the cache store      *)
(* (RedisService), the cached agent operations (TaskManagementAgent,       *)
(* TeamLeadAgent), the metric aggregators (app/utils/metrics.py) and the   *)
(* alert evaluator (MetricAlertManager).                                   *)
(*                                                                         *)
(* Time is in seconds.  Python values are records tagged by their type in  *)
(* field t, so that a str and the dict it was serialised from are          *)
(* different values.  A str is a sequence of tokens.                       *)
(***************************************************************************)
EXTENDS Integers, Sequences, FiniteSets, TLC

VARIABLES
    store,        \* Redis: key -> [val, exp, at, ver]
    now,          \* wall clock, seconds
    ticks,        \* number of clock advances so far
    lastOp,       \* the last RedisService call made directly and what it returned
    prevOp,       \* the step before it
    deleted,      \* keys deleted and not set since
    assignee,     \* task -> assignee id (board data)
    taskUpdated,  \* task -> updated_at
    dataVer,      \* number of writes applied to the board data
    req,          \* agent request slot -> local state of the running handler
    started,      \* number of agent requests started
    aggLog,       \* calls of the metric aggregators, oldest first
    alertIn,      \* arguments of the alert check
    alertOut,     \* alerts returned by the alert check
    calcIn,       \* database rows read by the calculator under check
    calcOut,      \* what the calculator returned
    boardDb,      \* boards table: number of the committed content of the board
    boardCache,   \* Redis entry board:<id>
    boardReq,     \* board request -> local state of the running handler
    boardFloor,   \* newest content an update_board that has returned committed
    loginKey,     \* Redis entry login_attempts:<email>
    authNow,      \* wall clock of the Redis server, seconds
    loginReq,     \* login request -> local state of the running handler
    pipelines,    \* AsyncSchedulerService.pipelines: name -> Pipeline and its job
    pausedOk,     \* pipelines whose last pause_pipeline/resume_pipeline was a pause
    channel_connections, \* CommunicationManager: channel -> websockets
    channel_presence,    \* CommunicationManager: channel -> user ids
    accepted,     \* <<websocket, channel, user>> of the channel_websocket handlers running
    closed,       \* websockets whose peer is gone: a send to them fails
    taskStatus,   \* task -> status, as the board holds it
    taskLog,      \* the last PUT /tasks/{task_id} and its response
    report        \* the scheduled report under way

vars == <<store, now, ticks, lastOp, prevOp, deleted, assignee, taskUpdated, dataVer,
          req, started, aggLog, alertIn, alertOut, calcIn, calcOut,
          boardDb, boardCache, boardReq, boardFloor, loginKey, authNow, loginReq,
          pipelines, pausedOk, channel_connections, channel_presence, accepted, closed,
          taskStatus, taskLog, report>>

redisVars == <<store, now, ticks>>
callVars  == <<lastOp, prevOp, deleted>>
aggVars   == <<aggLog>>
dataVars  == <<assignee, taskUpdated, dataVer>>
agentVars == <<req, started>>
alertVars == <<alertIn, alertOut>>
calcVars  == <<calcIn, calcOut>>
boardVars == <<boardDb, boardCache, boardReq, boardFloor>>
authVars  == <<loginKey, authNow, loginReq>>
schedVars == <<pipelines, pausedOk>>
wsVars    == <<channel_connections, channel_presence, accepted, closed>>
taskVars  == <<taskStatus, taskLog>>
reportVars == <<report>>
apiVars   == <<boardVars, authVars, schedVars, wsVars, taskVars, reportVars>>
coreVars  == <<redisVars, callVars, aggVars, dataVars, agentVars, alertVars, calcVars>>

----------------------------------------------------------------------------
(* Bounds *)

MaxTicks    == 2
MaxRedisOps == 3
MaxRequests == 2
MaxCalls    == 2
MaxUpdates  == 1
MaxVelocity == 12
MaxDoneTasks == 2
MaxHistory  == 3
MaxSprints  == 3
MaxTrendSprints == 2

----------------------------------------------------------------------------
(* Python values *)

PyNone        == [t |-> "none"]
PyStr(s)      == [t |-> "str", s |-> s]
PyInt(n)      == [t |-> "int", n |-> n]
PyBool(b)     == [t |-> "bool", b |-> b]
PyDict(items) == [t |-> "dict", items |-> items]
PyList(l)     == [t |-> "list", l |-> l]
PyDateTime(n) == [t |-> "datetime", n |-> n]
PyExc(kind)   == [t |-> "exc", kind |-> kind]

IsExc(v) == v.t = "exc"

\* Python truth value of v, as tested by `if v:`
Truthy(v) ==
    CASE v.t = "none" -> FALSE
      [] v.t = "str"  -> v.s # <<>>
      [] v.t = "int"  -> v.n # 0
      [] v.t = "bool" -> v.b
      [] v.t = "dict" -> v.items # <<>>
      [] v.t = "list" -> v.l # <<>>
      [] OTHER        -> TRUE

\* datetime.isoformat()
IsoFormat(d) == PyStr(<<ToString(d.n)>>)

\* d[key] for a dict d held as a sequence of <<key, value>> items
DictHas(d, key) == \E i \in 1..Len(d.items) : d.items[i][1] = key
DictGet(d, key) ==
    IF DictHas(d, key)
    THEN d.items[CHOOSE i \in 1..Len(d.items) : d.items[i][1] = key][2]
    ELSE PyNone

\* v.get(key): only a dict has the method
MethodGet(v, key) ==
    IF v.t = "dict" THEN DictGet(v, key) ELSE PyExc("AttributeError")

\* a <= b: only values of the same type are ordered
PyLessEq(a, b) ==
    IF IsExc(a) THEN a
    ELSE IF IsExc(b) THEN b
    ELSE IF a.t = "datetime" /\ b.t = "datetime" THEN PyBool(a.n <= b.n)
    ELSE IF a.t = "int" /\ b.t = "int" THEN PyBool(a.n <= b.n)
    ELSE PyExc("TypeError")

\* json.dumps(v): the text of v, token by token
RECURSIVE JsonDumps(_)
RECURSIVE JsonJoin(_, _)
JsonJoin(texts, i) ==
    IF i > Len(texts) THEN <<>>
    ELSE (IF i > 1 THEN <<",">> ELSE <<>>) \o texts[i] \o JsonJoin(texts, i + 1)

JsonDumps(v) ==
    CASE v.t = "none" -> <<"null">>
      [] v.t = "int"  -> <<ToString(v.n)>>
      [] v.t = "bool" -> <<IF v.b THEN "true" ELSE "false">>
      [] v.t = "str"  -> <<"\"">> \o v.s \o <<"\"">>
      [] v.t = "list" ->
            <<"[">> \o JsonJoin([i \in 1..Len(v.l) |-> JsonDumps(v.l[i])], 1) \o <<"]">>
      [] v.t = "dict" ->
            <<"{">> \o JsonJoin([i \in 1..Len(v.items) |->
                         <<"\"", v.items[i][1], "\"", ":">> \o JsonDumps(v.items[i][2])], 1)
                  \o <<"}">>

----------------------------------------------------------------------------
(* The cache store: app/services/redis_service.py over a Redis server *)

NoExpiry == -1

\* cache keys built by the agents
WorkloadKey(team)     == <<"team_workload", team>>
HistoricalKey(team)   == <<"historical_metrics", team>>
AnalysisKey(task)     == <<"task_analysis", task>>
SprintReportKey(team, sprint) == <<"sprint_report", team, sprint>>

Teams   == {"t1"}
Tasks   == {"k1", "k2"}
Members == {"u1", "u2"}
ActiveSprint == [t1 |-> "s3"]

AgentKeys == {WorkloadKey(tm) : tm \in Teams} \cup {HistoricalKey(tm) : tm \in Teams}
             \cup {AnalysisKey(k) : k \in Tasks}
             \cup {SprintReportKey(tm, ActiveSprint[tm]) : tm \in Teams}
PlainKeys == {<<"a">>, <<"b">>}
Keys      == AgentKeys \cup PlainKeys

Absent == [val |-> PyNone, exp |-> NoExpiry, at |-> 0, ver |-> 0]

\* RedisService.get without its try/except: a client error propagates
RedisGet_Raising(key, fail) ==
    IF fail THEN PyExc("RedisError") ELSE store[key].val

\* RedisService.get: the stored text, or None when the key is missing or
\* the client raises
RedisGet(key, fail) ==
    IF fail THEN PyNone ELSE store[key].val

\* RedisService.set: a dict or list is stored as its JSON text, anything
\* else as it is; the entry expires `expire` seconds from now.  src is the
\* version of the board data the value was derived from (not stored by Redis).
RedisSet(key, value, expire, fail, src) ==
    IF fail
    THEN [store |-> store, ret |-> PyBool(FALSE)]
    ELSE [store |-> [store EXCEPT ![key] =
                        [val |-> IF value.t \in {"dict", "list"}
                                 THEN PyStr(JsonDumps(value)) ELSE value,
                         exp |-> IF expire = NoExpiry THEN NoExpiry ELSE now + expire,
                         at  |-> now,
                         ver |-> src]],
          ret |-> PyBool(TRUE)]

\* RedisService.delete
RedisDelete(key, fail) ==
    IF fail
    THEN [store |-> store, ret |-> PyBool(FALSE)]
    ELSE [store |-> [store EXCEPT ![key] = Absent],
          ret |-> PyBool(store[key].val # PyNone)]

\* The server drops an entry once its expiry time is reached
Expire(st, time) ==
    [k \in Keys |-> IF st[k].exp # NoExpiry /\ st[k].exp <= time THEN Absent ELSE st[k]]

TickSteps == {900, 3600, 86400}

Tick(d) ==
    /\ ticks < MaxTicks
    /\ now' = now + d
    /\ ticks' = ticks + 1
    /\ store' = Expire(store, now + d)
    /\ UNCHANGED <<callVars, dataVars, agentVars, aggVars, alertVars, calcVars, apiVars>>

\* values handed to the store directly
RedisValues ==
    { PyStr(<<"1">>),
      PyDict(<<>>), PyDict(<< <<"analysis", PyStr(<<"fine">>)>> >>),
      PyList(<<PyInt(1), PyInt(2)>>) }

RedisExpires == {NoExpiry, 900}

NoOp == [op |-> "none", key |-> <<>>, arg |-> PyNone, ret |-> PyNone, ok |-> TRUE, at |-> 0,
         n |-> 0]

CallSet(key, value, expire, fail) ==
    LET r == RedisSet(key, value, expire, fail, dataVer) IN
    /\ lastOp.n < MaxRedisOps
    /\ store' = r.store
    /\ prevOp' = lastOp
    /\ lastOp' = [op |-> "set", key |-> key, arg |-> value, ret |-> r.ret, ok |-> ~fail, at |-> now,
                  n |-> lastOp.n + 1]
    /\ deleted' = IF fail THEN deleted ELSE deleted \ {key}
    /\ UNCHANGED <<now, ticks, dataVars, agentVars, aggVars, alertVars, calcVars, apiVars>>

CallGet(key, fail) ==
    /\ lastOp.n < MaxRedisOps
    /\ prevOp' = lastOp
    /\ lastOp' = [op |-> "get", key |-> key, arg |-> PyNone,
                  ret |-> RedisGet(key, fail), ok |-> ~fail, at |-> now,
                  n |-> lastOp.n + 1]
    /\ UNCHANGED <<redisVars, deleted, dataVars, agentVars, aggVars, alertVars, calcVars, apiVars>>

CallDelete(key, fail) ==
    LET r == RedisDelete(key, fail) IN
    /\ lastOp.n < MaxRedisOps
    /\ store' = r.store
    /\ prevOp' = lastOp
    /\ lastOp' = [op |-> "delete", key |-> key, arg |-> PyNone, ret |-> r.ret, ok |-> ~fail, at |-> now,
                  n |-> lastOp.n + 1]
    /\ deleted' = IF fail THEN deleted ELSE deleted \cup {key}
    /\ UNCHANGED <<now, ticks, dataVars, agentVars, aggVars, alertVars, calcVars, apiVars>>

----------------------------------------------------------------------------
(* Board data read by the agents, and what they compute from it *)

NoOne == "nobody"

\* the team's tasks in the order get_team_tasks returns them
TeamTasks == <<"k1", "k2">>
StoryPoints == [k1 |-> 3, k2 |-> 5]
PriorityOf  == [k1 |-> "high", k2 |-> "medium"]
TypeOf      == [k1 |-> "feature", k2 |-> "bug"]

TaskPriorities == <<"critical", "high", "medium", "low">>
TaskTypes == <<"feature", "bug", "tech_debt", "documentation", "research", "maintenance">>

RECURSIVE SumPoints(_)
SumPoints(S) ==
    IF S = {} THEN 0
    ELSE LET k == CHOOSE x \in S : TRUE IN StoryPoints[k] + SumPoints(S \ {k})

\* assignees in the order the loop over the tasks first meets them
RECURSIVE FirstSeen(_, _)
FirstSeen(asg, i) ==
    IF i = 0 THEN <<>>
    ELSE LET prev == FirstSeen(asg, i - 1)
             m    == asg[TeamTasks[i]]
         IN IF m = NoOne \/ \E j \in 1..Len(prev) : prev[j] = m
            THEN prev ELSE Append(prev, m)

\* the workload dict built by _get_team_workload from the team's tasks
Workload(asg) ==
    LET order == FirstSeen(asg, Len(TeamTasks))
        mine(m) == {k \in Tasks : asg[k] = m}
        entry(m) == PyDict(<<
            <<"assigned_points", PyInt(SumPoints(mine(m)))>>,
            <<"task_count", PyInt(Cardinality(mine(m)))>>,
            <<"tasks_by_priority", PyDict([i \in 1..Len(TaskPriorities) |->
                <<TaskPriorities[i],
                  PyInt(Cardinality({k \in mine(m) : PriorityOf[k] = TaskPriorities[i]}))>>])>>,
            <<"tasks_by_type", PyDict([i \in 1..Len(TaskTypes) |->
                <<TaskTypes[i],
                  PyInt(Cardinality({k \in mine(m) : TypeOf[k] = TaskTypes[i]}))>>])>> >>)
    IN PyDict([i \in 1..Len(order) |-> <<order[i], entry(order[i])>>])

\* the part of generate_metrics_report that depends on the assignments:
\* details.task_distribution.by_assignee of calculate_task_distribution
\* (all the team's tasks were created inside the report's window)
MetricsReport(asg) ==
    LET order == FirstSeen(asg, Len(TeamTasks)) IN
    PyDict(<< <<"details", PyDict(<< <<"task_distribution", PyDict(<<
        <<"by_assignee", PyDict([i \in 1..Len(order) |->
            <<order[i], PyInt(Cardinality({k \in Tasks : asg[k] = order[i]}))>>])>> >>)>> >>)>> >>)

\* MondayService.update_task changing the assignee column of a board item: the
\* only write to the board in the repository (PUT /tasks/{task_id} and
\* _apply_assignment_optimizations both go through it).  A failed mutation
\* raises and leaves the board as it was.  No cache key is read or deleted.
update_task(task_id, assignee_id, fail) ==
    /\ dataVer < MaxUpdates
    /\ assignee[task_id] # assignee_id
    /\ IF fail
       THEN UNCHANGED dataVars
       ELSE /\ assignee' = [assignee EXCEPT ![task_id] = assignee_id]
            /\ taskUpdated' = [taskUpdated EXCEPT ![task_id] = now]
            /\ dataVer' = dataVer + 1
    /\ UNCHANGED <<redisVars, callVars, agentVars, aggVars, alertVars, calcVars, apiVars>>

----------------------------------------------------------------------------
(* Cached agent operations.  Each await is one step of the request. *)

Procs == {"p1", "p2"}

IdleReq ==
    [op |-> "idle", pc |-> "idle", arg |-> "", snapVer |-> 0, updatedAt |-> 0,
     val |-> PyNone, res |-> PyNone, out |-> "", err |-> "",
     getFailed |-> FALSE, setFailed |-> FALSE, hit |-> FALSE, stale |-> FALSE,
     wrote |-> FALSE, startVer |-> 0]

\* the request returns v to its caller
Returns(r, v) == [r EXCEPT !.pc = "done", !.res = v, !.out = "ok"]
\* the request raises to its caller
Raises(r, kind) == [r EXCEPT !.pc = "done", !.out = "error", !.err = kind]
\* the request catches and prints the error, then returns None
Swallows(r, kind) == [r EXCEPT !.pc = "done", !.out = "ok", !.err = kind]

\* the workload cached for an hour
WorkloadExpire_Hour == 60 * 60

WorkloadExpire   == 60 * 15
AnalysisExpire   == 60 * 60
HistoricalExpire == 60 * 60 * 24
SprintReportExpire == 60 * 60 * 24 * 7

Start(p, op, arg) ==
    /\ req[p].pc = "idle"
    /\ started < MaxRequests
    /\ started' = started + 1
    /\ req' = [req EXCEPT ![p] = [IdleReq EXCEPT !.op = op, !.arg = arg,
                                   !.pc = IF op \in {"blockers", "friday"} THEN "load" ELSE "get",
                                   !.startVer = dataVer]]
    /\ UNCHANGED <<redisVars, callVars, dataVars, aggVars, alertVars, calcVars, apiVars>>

\* the caller takes the result; the slot is free again
Return(p) ==
    /\ req[p].pc = "done"
    /\ req' = [req EXCEPT ![p] = IdleReq]
    /\ UNCHANGED <<redisVars, callVars, dataVars, started, aggVars, alertVars, calcVars, apiVars>>

\* _get_team_workload: cached = redis.get(key); if cached: return cached
WorkloadGet(p, fail) ==
    LET r == req[p]
        cached == RedisGet(WorkloadKey(r.arg), fail)
        r1 == [r EXCEPT !.getFailed = fail]
    IN
    /\ r.op = "workload" /\ r.pc = "get"
    /\ req' = [req EXCEPT ![p] =
                 IF IsExc(cached) THEN Raises(r1, cached.kind)
                 ELSE IF Truthy(cached)
                 THEN Returns([r1 EXCEPT !.hit = TRUE,
                                         !.snapVer = store[WorkloadKey(r.arg)].ver], cached)
                 ELSE [r1 EXCEPT !.pc = "fetch"]]
    /\ UNCHANGED <<redisVars, callVars, dataVars, started, aggVars, alertVars, calcVars, apiVars>>

\* _get_team_workload with a handler that prints the error of get_team_tasks
WorkloadFetch_Swallowing(p, fail) ==
    LET r == req[p] IN
    /\ r.op = "workload" /\ r.pc = "fetch"
    /\ req' = [req EXCEPT ![p] =
                 IF fail THEN Swallows(r, "DataUnavailable")
                 ELSE [r EXCEPT !.pc = "set", !.val = Workload(assignee),
                                !.snapVer = dataVer]]
    /\ UNCHANGED <<redisVars, callVars, dataVars, started, aggVars, alertVars, calcVars, apiVars>>

\* _get_team_workload: team_tasks = get_team_tasks(team_id), then the loop
WorkloadFetch(p, fail) ==
    LET r == req[p] IN
    /\ r.op = "workload" /\ r.pc = "fetch"
    /\ req' = [req EXCEPT ![p] =
                 IF fail THEN Raises(r, "DataUnavailable")
                 ELSE [r EXCEPT !.pc = "set", !.val = Workload(assignee),
                                !.snapVer = dataVer]]
    /\ UNCHANGED <<redisVars, callVars, dataVars, started, aggVars, alertVars, calcVars, apiVars>>

\* _get_team_workload: redis.set(key, workload, expire=60*15); return workload
WorkloadSet(p, fail) ==
    LET r == req[p]
        w == RedisSet(WorkloadKey(r.arg), r.val, WorkloadExpire, fail, r.snapVer)
        r1 == [r EXCEPT !.setFailed = fail, !.wrote = ~fail]
    IN
    /\ r.op = "workload" /\ r.pc = "set"
    /\ store' = w.store
    /\ req' = [req EXCEPT ![p] =
                 IF IsExc(w.ret) THEN Raises(r1, w.ret.kind) ELSE Returns(r1, r.val)]
    /\ UNCHANGED <<now, ticks, callVars, dataVars, started, aggVars, alertVars, calcVars, apiVars>>

\* _get_historical_metrics: cached = redis.get(key); if cached: return cached
HistoricalGet(p, fail) ==
    LET r == req[p]
        cached == RedisGet(HistoricalKey(r.arg), fail)
        r1 == [r EXCEPT !.getFailed = fail]
    IN
    /\ r.op = "historical" /\ r.pc = "get"
    /\ req' = [req EXCEPT ![p] =
                 IF IsExc(cached) THEN Raises(r1, cached.kind)
                 ELSE IF Truthy(cached)
                 THEN Returns([r1 EXCEPT !.hit = TRUE,
                                         !.snapVer = store[HistoricalKey(r.arg)].ver], cached)
                 ELSE [r1 EXCEPT !.pc = "fetch"]]
    /\ UNCHANGED <<redisVars, callVars, dataVars, started, aggVars, alertVars, calcVars, apiVars>>

\* _get_historical_metrics: metrics = generate_metrics_report(team_id, "last_quarter")
HistoricalFetch(p, fail) ==
    LET r == req[p] IN
    /\ r.op = "historical" /\ r.pc = "fetch"
    /\ req' = [req EXCEPT ![p] =
                 IF fail THEN Raises(r, "DataUnavailable")
                 ELSE [r EXCEPT !.pc = "set", !.val = MetricsReport(assignee),
                                !.snapVer = dataVer]]
    /\ UNCHANGED <<redisVars, callVars, dataVars, started, aggVars, alertVars, calcVars, apiVars>>

\* _get_historical_metrics: redis.set(key, metrics, expire=60*60*24); return metrics
HistoricalSet(p, fail) ==
    LET r == req[p]
        w == RedisSet(HistoricalKey(r.arg), r.val, HistoricalExpire, fail, r.snapVer)
        r1 == [r EXCEPT !.setFailed = fail, !.wrote = ~fail]
    IN
    /\ r.op = "historical" /\ r.pc = "set"
    /\ store' = w.store
    /\ req' = [req EXCEPT ![p] =
                 IF IsExc(w.ret) THEN Raises(r1, w.ret.kind) ELSE Returns(r1, r.val)]
    /\ UNCHANGED <<now, ticks, callVars, dataVars, started, aggVars, alertVars, calcVars, apiVars>>

\* replies of the assistant
AnalysisTexts == {<<"fine">>, <<"blocker">>}

\* str.upper(), token by token
Upper(text) ==
    [i \in 1..Len(text) |->
        CASE text[i] = "blocker" -> "BLOCKER"
          [] text[i] = "fine"    -> "FINE"
          [] OTHER               -> text[i]]

\* "BLOCKER" in analysis.upper() or "HIGH RISK" in analysis.upper()
MentionsBlocker(analysis) ==
    LET up == Upper(analysis.s) IN
    \/ \E i \in 1..Len(up) : up[i] = "BLOCKER"
    \/ \E i \in 1..(Len(up) - 1) : up[i] = "HIGH" /\ up[i + 1] = "RISK"

\* analyze_task_blockers: get_task, get_related_tasks, calculate_team_metrics,
\* calculate_task_metrics; an error is printed and raised again
BlockersLoad(p, fail) ==
    LET r == req[p] IN
    /\ r.op = "blockers" /\ r.pc = "load"
    /\ req' = [req EXCEPT ![p] =
                 IF fail THEN Raises(r, "DataUnavailable")
                 ELSE [r EXCEPT !.pc = "get", !.updatedAt = taskUpdated[r.arg],
                                !.snapVer = dataVer]]
    /\ UNCHANGED <<redisVars, callVars, dataVars, started, aggVars, alertVars, calcVars, apiVars>>

\* analyze_task_blockers: cached_analysis = redis.get(key);
\* if cached_analysis and task.updated_at <= cached_analysis.get("last_updated"):
\*     return cached_analysis.get("analysis")
BlockersGet(p, fail) ==
    LET r == req[p]
        key == AnalysisKey(r.arg)
        cached == RedisGet(key, fail)
        fresh == IF IsExc(cached) THEN cached
                 ELSE IF ~Truthy(cached) THEN PyBool(FALSE)
                 ELSE PyLessEq(PyDateTime(r.updatedAt), MethodGet(cached, "last_updated"))
        r1 == [r EXCEPT !.getFailed = fail,
                        !.hit = ~IsExc(cached) /\ Truthy(cached),
                        !.stale = ~IsExc(cached) /\ Truthy(cached)
                                  /\ r.updatedAt > store[key].at]
    IN
    /\ r.op = "blockers" /\ r.pc = "get"
    /\ req' = [req EXCEPT ![p] =
                 IF IsExc(fresh) THEN Raises(r1, fresh.kind)
                 ELSE IF fresh.b THEN Returns(r1, MethodGet(cached, "analysis"))
                 ELSE [r1 EXCEPT !.pc = "assist"]]
    /\ UNCHANGED <<redisVars, callVars, dataVars, started, aggVars, alertVars, calcVars, apiVars>>

\* analyze_task_blockers: analysis = _run_assistant(...)
BlockersAssist(p, text, fail) ==
    LET r == req[p] IN
    /\ r.op = "blockers" /\ r.pc = "assist"
    /\ req' = [req EXCEPT ![p] =
                 IF fail THEN Raises(r, "AssistantFailed")
                 ELSE [r EXCEPT !.pc = "set", !.val = PyStr(text)]]
    /\ UNCHANGED <<redisVars, callVars, dataVars, started, aggVars, alertVars, calcVars, apiVars>>

\* analyze_task_blockers: redis.set(key, {"analysis": analysis,
\* "last_updated": datetime.now().isoformat()}, expire=60*60); the blocker
\* alert when the analysis mentions one; return analysis
BlockersSet(p, fail, slackFail) ==
    LET r == req[p]
        entry == PyDict(<< <<"analysis", r.val>>,
                           <<"last_updated", IsoFormat(PyDateTime(now))>> >>)
        w == RedisSet(AnalysisKey(r.arg), entry, AnalysisExpire, fail, r.snapVer)
        r1 == [r EXCEPT !.setFailed = fail, !.wrote = ~fail]
    IN
    /\ r.op = "blockers" /\ r.pc = "set"
    /\ store' = w.store
    /\ req' = [req EXCEPT ![p] =
                 IF IsExc(w.ret) THEN Raises(r1, w.ret.kind)
                 ELSE IF MentionsBlocker(r.val) /\ slackFail THEN Raises(r1, "SlackError")
                 ELSE Returns(r1, r.val)]
    /\ UNCHANGED <<now, ticks, callVars, dataVars, started, aggVars, alertVars, calcVars, apiVars>>

\* keys of the bundles returned by calculate_sprint_metrics and calculate_team_metrics
SprintMetricsKeys == {"completion_rate", "velocity", "quality_score", "burndown",
                      "team_satisfaction"}
TeamMetricsKeys == {"velocity", "quality", "efficiency", "health", "trends"}

\* _check_sprint_alerts: the subscripts it evaluates, in order; the first
\* missing key raises KeyError
CheckSprintAlertsError(sprintKeys, teamKeys) ==
    IF "velocity" \notin sprintKeys \/ "average_velocity" \notin teamKeys
       \/ "quality" \notin sprintKeys
    THEN PyExc("KeyError") ELSE PyNone

\* send_friday_sprint_report: get_teams, get_active_sprint,
\* calculate_sprint_metrics, calculate_team_metrics.  The whole body is in a
\* try whose handler prints the error.
FridayLoad(p, fail, hasSprint) ==
    LET r == req[p] IN
    /\ r.op = "friday" /\ r.pc = "load"
    /\ req' = [req EXCEPT ![p] =
                 IF fail THEN Swallows(r, "DataUnavailable")
                 ELSE IF ~hasSprint THEN Returns(r, PyNone)
                 ELSE [r EXCEPT !.pc = "alerts", !.snapVer = dataVer]]
    /\ UNCHANGED <<redisVars, callVars, dataVars, started, aggVars, alertVars, calcVars, apiVars>>

\* send_friday_sprint_report: _check_sprint_alerts, the charts, the
\* assistant's report, redis.set(key, {...}, expire=60*60*24*7), the message
FridayReport(p, tm, text, fail) ==
    LET r == req[p]
        alerts == CheckSprintAlertsError(SprintMetricsKeys, TeamMetricsKeys)
        entry == PyDict(<< <<"report", PyStr(text)>> >>)
        w == IF IsExc(alerts) THEN [store |-> store, ret |-> PyNone]
             ELSE RedisSet(SprintReportKey(tm, ActiveSprint[tm]), entry,
                           SprintReportExpire, fail, r.snapVer)
    IN
    /\ r.op = "friday" /\ r.pc = "alerts"
    /\ store' = w.store
    /\ req' = [req EXCEPT ![p] =
                 IF IsExc(alerts) THEN Swallows(r, alerts.kind)
                 ELSE IF IsExc(w.ret) THEN Swallows(r, w.ret.kind)
                 ELSE Returns([r EXCEPT !.setFailed = fail, !.wrote = ~fail], PyNone)]
    /\ UNCHANGED <<now, ticks, callVars, dataVars, started, aggVars, alertVars, calcVars, apiVars>>

----------------------------------------------------------------------------
(* Initial values shared by the specifications *)

InitRedis ==
    /\ store = [k \in Keys |-> Absent]
    /\ now = 0
    /\ ticks = 0
    /\ lastOp = NoOp
    /\ prevOp = NoOp
    /\ deleted = {}

InitData ==
    /\ assignee = [k \in Tasks |-> IF k = "k1" THEN "u1" ELSE NoOne]
    /\ taskUpdated = [k \in Tasks |-> 0]
    /\ dataVer = 0

InitAgents ==
    /\ req = [p \in Procs |-> IdleReq]
    /\ started = 0

InitAgg == aggLog = <<>>

InitAlerts ==
    /\ alertIn = [current |-> 0, historical |-> 0]
    /\ alertOut = [done |-> FALSE, alerts |-> <<>>]

NoCalc == [fn |-> "none"]

InitCalc ==
    /\ calcIn = NoCalc
    /\ calcOut = NoCalc

\* The API services right after construction
BoardProcs == {"r1", "r2", "r3"}
IdleBoardReq == [op |-> "idle", pc |-> "idle", read |-> 0, floor |-> 0, res |-> PyNone]

InitBoards ==
    /\ boardDb = 0
    /\ boardCache = PyNone
    /\ boardReq = [p \in BoardProcs |-> IdleBoardReq]
    /\ boardFloor = 0

LoginProcs == {"l1", "l2"}
NoLoginKey == [val |-> PyNone, exp |-> NoExpiry]
IdleLogin == [pc |-> "idle", attempts |-> PyNone, status |-> 0, n |-> 0]

InitAuth ==
    /\ loginKey = NoLoginKey
    /\ authNow = 0
    /\ loginReq = [p \in LoginProcs |-> IdleLogin]

PipelineNames == {"reports", "sync"}
NoPipeline == [added |-> FALSE, job |-> "none", status |-> "stopped", enabled |-> TRUE,
               error_count |-> 0, running |-> 0]

\* AsyncSchedulerService.__init__: no pipeline yet
InitScheduler ==
    /\ pipelines = [n \in PipelineNames |-> NoPipeline]
    /\ pausedOk = {}

Channels == {"c1", "c2"}
NoChannel == [present |-> FALSE, members |-> {}]

\* CommunicationManager.__init__: both dicts empty
InitChannels ==
    /\ channel_connections = [c \in Channels |-> NoChannel]
    /\ channel_presence = [c \in Channels |-> NoChannel]
    /\ accepted = {}
    /\ closed = {}

NoResponse == [task |-> "none", status |-> "none", code |-> 0]

InitTasks ==
    /\ taskStatus = [k \in Tasks |-> "backlog"]
    /\ taskLog = NoResponse

NoReport == [kind |-> "none"]

InitReports == report = NoReport

InitApi == InitBoards /\ InitAuth /\ InitScheduler /\ InitChannels /\ InitTasks /\ InitReports

Init == InitRedis /\ InitData /\ InitAgents /\ InitAgg /\ InitAlerts /\ InitCalc /\ InitApi

----------------------------------------------------------------------------
(* The cache store on its own *)

NextRedis ==
    \/ \E k \in PlainKeys, v \in RedisValues, e \in RedisExpires, f \in BOOLEAN :
          CallSet(k, v, e, f)
    \/ \E k \in PlainKeys, f \in BOOLEAN : CallGet(k, f)
    \/ \E k \in PlainKeys, f \in BOOLEAN : CallDelete(k, f)
    \/ \E d \in TickSteps : Tick(d)

SpecRedis == Init /\ [][NextRedis]_vars

\* lastOp is a get that directly follows prevOp on the same key, both served
\* by the server, with no time passing in between
GetRightAfter(kind) ==
    /\ lastOp.op = "get" /\ prevOp.op = kind
    /\ lastOp.key = prevOp.key
    /\ lastOp.ok /\ prevOp.ok
    /\ lastOp.at = prevOp.at

\* C4: set(key, value, ttl) followed immediately by get(key) returns the
\* value that was set (a map is read back as that map, a list as that list,
\* a string as that string); after delete(key), get(key) is a miss until the
\* next set of that key.
C4_RoundTrip ==
    /\ GetRightAfter("set") => lastOp.ret = prevOp.arg
    /\ (lastOp.op = "get" /\ lastOp.ok /\ lastOp.key \in deleted) => lastOp.ret = PyNone

----------------------------------------------------------------------------
(* The agents over the cache store and the board *)

Step(P) ==
    \/ \E p \in P, tm \in Teams : Start(p, "workload", tm)
    \/ \E p \in P, tm \in Teams : Start(p, "historical", tm)
    \/ \E p \in P, k \in Tasks : Start(p, "blockers", k)
    \/ \E p \in P : Start(p, "friday", "")
    \/ \E p \in P : Return(p)
    \/ \E p \in P, f \in BOOLEAN : WorkloadGet(p, f)
    \/ \E p \in P, f \in BOOLEAN : WorkloadFetch(p, f)
    \/ \E p \in P, f \in BOOLEAN : WorkloadSet(p, f)
    \/ \E p \in P, f \in BOOLEAN : HistoricalGet(p, f)
    \/ \E p \in P, f \in BOOLEAN : HistoricalFetch(p, f)
    \/ \E p \in P, f \in BOOLEAN : HistoricalSet(p, f)
    \/ \E p \in P, f \in BOOLEAN : BlockersLoad(p, f)
    \/ \E p \in P, f \in BOOLEAN : BlockersGet(p, f)
    \/ \E p \in P, x \in AnalysisTexts, f \in BOOLEAN : BlockersAssist(p, x, f)
    \/ \E p \in P, f \in BOOLEAN, sf \in BOOLEAN : BlockersSet(p, f, sf)
    \/ \E p \in P, f \in BOOLEAN, hs \in BOOLEAN : FridayLoad(p, f, hs)
    \/ \E p \in P, tm \in Teams, x \in AnalysisTexts, f \in BOOLEAN :
          FridayReport(p, tm, x, f)
    \/ \E k \in Tasks, m \in Members, f \in BOOLEAN : update_task(k, m, f)
    \/ \E d \in TickSteps : Tick(d)

\* one request at a time
Next == Step({"p1"})

Spec == Init /\ [][Next]_vars

\* two requests for team data at a time
NextRace ==
    \/ \E p \in Procs, tm \in Teams : Start(p, "workload", tm)
    \/ \E p \in Procs, tm \in Teams : Start(p, "historical", tm)
    \/ \E p \in Procs : Return(p)
    \/ \E p \in Procs, f \in BOOLEAN : WorkloadGet(p, f)
    \/ \E p \in Procs, f \in BOOLEAN : WorkloadFetch(p, f)
    \/ \E p \in Procs, f \in BOOLEAN : WorkloadSet(p, f)
    \/ \E p \in Procs, f \in BOOLEAN : HistoricalGet(p, f)
    \/ \E p \in Procs, f \in BOOLEAN : HistoricalFetch(p, f)
    \/ \E p \in Procs, f \in BOOLEAN : HistoricalSet(p, f)
    \/ \E k \in Tasks, m \in Members, f \in BOOLEAN : update_task(k, m, f)
    \/ \E d \in TickSteps : Tick(d)

SpecRace == Init /\ [][NextRace]_vars

----------------------------------------------------------------------------
(* The metric aggregators of app/utils/metrics.py *)

NoDate == -1

\* dates are day numbers
SprintIds == {"s1", "s2", "s3"}
Sprints ==
    [s1 |-> [team |-> "t1", start |-> 1, end |-> 15, status |-> "completed",
             planned_points |-> 100, completed_points |-> 80],
     s2 |-> [team |-> "t1", start |-> 16, end |-> 30, status |-> "completed",
             planned_points |-> 40, completed_points |-> 40],
     s3 |-> [team |-> "t1", start |-> 31, end |-> 45, status |-> "active",
             planned_points |-> 60, completed_points |-> 10]]

\* a float that is a quotient of integers
Ratio(n, d) == [num |-> n, den |-> d]

RECURSIVE SumCompleted(_)
SumCompleted(S) ==
    IF S = {} THEN 0
    ELSE LET x == CHOOSE y \in S : TRUE
         IN Sprints[x].completed_points + SumCompleted(S \ {x})

\* calculate_velocity: mean completed_points of the team's completed sprints
\* whose end_date lies in the window; 0.0 when there is none
calculate_velocity(team, start_date, end_date) ==
    LET sel == {x \in SprintIds :
                  /\ Sprints[x].team = team
                  /\ (start_date # NoDate => Sprints[x].end >= start_date)
                  /\ (end_date # NoDate => Sprints[x].end <= end_date)
                  /\ Sprints[x].status = "completed"}
    IN IF sel = {} THEN Ratio(0, 1) ELSE Ratio(SumCompleted(sel), Cardinality(sel))

\* calculate_completion_rate
calculate_completion_rate(sprint_id) ==
    IF sprint_id \notin SprintIds \/ Sprints[sprint_id].planned_points = 0
    THEN Ratio(0, 1)
    ELSE Ratio(Sprints[sprint_id].completed_points * 100, Sprints[sprint_id].planned_points)

\* calculate_sprint_velocity
calculate_sprint_velocity(sprint_id) ==
    IF sprint_id \notin SprintIds THEN Ratio(0, 1)
    ELSE Ratio(Sprints[sprint_id].completed_points, 1)

\* calculate_cycle_time, in seconds; no task of the board is done
calculate_cycle_time(task_id) == Ratio(0, 1)

WindowDates == {NoDate, 0, 20, 40}
SprintArgs == SprintIds \cup {"unknown"}

\* calculate_team_metrics: runs the calculators on every call and returns the
\* bundle; it reads no cache and checks no window
calculate_team_metrics(team, start_date, end_date) ==
    /\ Len(aggLog) < MaxCalls
    /\ aggLog' = Append(aggLog,
          [fn |-> "team", args |-> <<team, start_date, end_date>>, at |-> now,
           ran |-> TRUE, out |-> "ok",
           bundle |-> <<calculate_velocity(team, start_date, end_date)>>])
    /\ UNCHANGED <<redisVars, callVars, dataVars, agentVars, alertVars, calcVars, apiVars>>

\* calculate_sprint_metrics
calculate_sprint_metrics(sprint_id) ==
    /\ Len(aggLog) < MaxCalls
    /\ aggLog' = Append(aggLog,
          [fn |-> "sprint", args |-> <<sprint_id>>, at |-> now,
           ran |-> TRUE, out |-> "ok",
           bundle |-> <<calculate_completion_rate(sprint_id),
                        calculate_sprint_velocity(sprint_id)>>])
    /\ UNCHANGED <<redisVars, callVars, dataVars, agentVars, alertVars, calcVars, apiVars>>

\* calculate_task_metrics
calculate_task_metrics(task_id) ==
    /\ Len(aggLog) < MaxCalls
    /\ aggLog' = Append(aggLog,
          [fn |-> "task", args |-> <<task_id>>, at |-> now,
           ran |-> TRUE, out |-> "ok",
           bundle |-> <<calculate_cycle_time(task_id)>>])
    /\ UNCHANGED <<redisVars, callVars, dataVars, agentVars, alertVars, calcVars, apiVars>>

NextAgg ==
    \/ \E tm \in Teams, a \in WindowDates, b \in WindowDates : calculate_team_metrics(tm, a, b)
    \/ \E x \in SprintArgs : calculate_sprint_metrics(x)
    \/ \E k \in Tasks : calculate_task_metrics(k)
    \/ \E d \in TickSteps : Tick(d)

SpecAgg == Init /\ [][NextAgg]_vars

----------------------------------------------------------------------------
(* The alert evaluator: app/utils/metric_alerts.py *)

\* alert_thresholds["velocity_drop"]
VelocityDropThreshold == 20

\* check_velocity_alerts comparing with >= instead of >
check_velocity_alerts_AtLeast(current_velocity, historical_velocity) ==
    IF historical_velocity > 0
       /\ (historical_velocity - current_velocity) * 100
             >= VelocityDropThreshold * historical_velocity
    THEN << [type |-> "velocity_drop", severity |-> "high",
             metrics |-> [current |-> current_velocity,
                          historical |-> historical_velocity]] >>
    ELSE <<>>

\* check_velocity_alerts.  velocity_drop = (historical - current) / historical * 100
\* is compared with the threshold exactly: for historical > 0,
\* velocity_drop > threshold iff (historical - current) * 100 > threshold * historical
check_velocity_alerts(current_velocity, historical_velocity) ==
    IF historical_velocity > 0
       /\ (historical_velocity - current_velocity) * 100
             > VelocityDropThreshold * historical_velocity
    THEN << [type |-> "velocity_drop", severity |-> "high",
             metrics |-> [current |-> current_velocity,
                          historical |-> historical_velocity]] >>
    ELSE <<>>

Velocities == (0..MaxVelocity) \cup {50, 80, 95, 100}
HistoricalVelocities == Velocities \cup {-10}

InitAlertInputs ==
    /\ alertIn \in [current : Velocities, historical : HistoricalVelocities]
    /\ alertOut = [done |-> FALSE, alerts |-> <<>>]

CheckVelocity ==
    /\ ~alertOut.done
    /\ alertOut' = [done |-> TRUE,
                    alerts |-> check_velocity_alerts(alertIn.current, alertIn.historical)]
    /\ UNCHANGED <<alertIn, redisVars, callVars, dataVars, agentVars, aggVars, calcVars, apiVars>>

NextAlerts == CheckVelocity

InitAlertCheck ==
    InitRedis /\ InitData /\ InitAgents /\ InitAgg /\ InitAlertInputs /\ InitCalc /\ InitApi

SpecAlerts == InitAlertCheck /\ [][NextAlerts]_vars

----------------------------------------------------------------------------
(* The quality rules and the sprint alert evaluation:                       *)
(* MetricAlertManager.check_quality_alerts, TeamLeadAgent._check_sprint_alerts *)

\* a Python float that is a quotient of integers, den > 0
PyFloat(n, d) == [t |-> "float", num |-> n, den |-> d]

IsNumber(v) == v.t \in {"int", "float"}
Num(v) == IF v.t = "int" THEN v.n ELSE v.num
Den(v) == IF v.t = "int" THEN 1 ELSE v.den

\* a < b for numbers; ordering None or a dict against a number is a TypeError
PyLess(a, b) ==
    IF IsExc(a) THEN a
    ELSE IF IsExc(b) THEN b
    ELSE IF IsNumber(a) /\ IsNumber(b) THEN PyBool(Num(a) * Den(b) < Num(b) * Den(a))
    ELSE PyExc("TypeError")

\* d[key]
Subscript(d, key) ==
    IF IsExc(d) THEN d
    ELSE IF d.t # "dict" THEN PyExc("TypeError")
    ELSE IF DictHas(d, key) THEN DictGet(d, key)
    ELSE PyExc("KeyError")

\* alert_thresholds["low_test_coverage"] and ["high_rework_rate"] (0.3)
LowTestCoverageThreshold == PyInt(80)
HighReworkRateThreshold == PyFloat(3, 10)

LowTestCoverageAlert == [type |-> "low_test_coverage", severity |-> "medium"]
HighReworkRateAlert  == [type |-> "high_rework_rate", severity |-> "high"]

\* check_quality_alerts with the coverage rule firing at the threshold too
check_quality_alerts_AtThreshold(quality_metrics) ==
    LET low == PyLess(LowTestCoverageThreshold, Subscript(quality_metrics, "test_coverage"))
        high == PyLess(HighReworkRateThreshold, Subscript(quality_metrics, "rework_rate"))
    IN IF IsExc(low) THEN low
       ELSE IF IsExc(high) THEN high
       ELSE PyList((IF ~low.b THEN <<LowTestCoverageAlert>> ELSE <<>>)
                   \o (IF high.b THEN <<HighReworkRateAlert>> ELSE <<>>))

\* check_quality_alerts: the two subscripts and comparisons in the order of the
\* code; the first one that raises ends the call
check_quality_alerts(quality_metrics) ==
    LET low == PyLess(Subscript(quality_metrics, "test_coverage"), LowTestCoverageThreshold)
        high == PyLess(HighReworkRateThreshold, Subscript(quality_metrics, "rework_rate"))
    IN IF IsExc(low) THEN low
       ELSE IF IsExc(high) THEN high
       ELSE PyList((IF low.b THEN <<LowTestCoverageAlert>> ELSE <<>>)
                   \o (IF high.b THEN <<HighReworkRateAlert>> ELSE <<>>))

\* check_velocity_alerts on Python values: `historical_velocity > 0` and the
\* subtraction need numbers
PyCheckVelocityAlerts(current, historical) ==
    IF ~IsNumber(historical) \/ ~IsNumber(current) THEN PyExc("TypeError")
    ELSE PyList(check_velocity_alerts(Num(current), Num(historical)))

\* _check_sprint_alerts: arguments are evaluated before each call, left to right
_check_sprint_alerts(sprint_metrics, team_metrics) ==
    LET v == Subscript(sprint_metrics, "velocity")
        a == Subscript(team_metrics, "average_velocity")
        va == PyCheckVelocityAlerts(v, a)
        q == Subscript(sprint_metrics, "quality")
        qa == check_quality_alerts(q)
    IN IF IsExc(v) THEN v
       ELSE IF IsExc(a) THEN a
       ELSE IF IsExc(va) THEN va
       ELSE IF IsExc(q) THEN q
       ELSE IF IsExc(qa) THEN qa
       ELSE PyList(va.l \o qa.l)

\* a dict from optional entries: an entry whose value is Missing is left out
Missing == [t |-> "missing"]
RECURSIVE DictOf(_)
DictOf(items) ==
    IF items = <<>> THEN <<>>
    ELSE (IF Head(items)[2] = Missing THEN <<>> ELSE <<Head(items)>>) \o DictOf(Tail(items))

CoverageValues == {Missing, PyNone, PyInt(0), PyInt(79), PyInt(80), PyInt(81), PyInt(100)}
ReworkValues   == {Missing, PyFloat(0, 100), PyFloat(29, 100), PyFloat(30, 100),
                   PyFloat(31, 100), PyInt(1)}
QualityGroups  ==
    {PyDict(DictOf(<< <<"test_coverage", c>>, <<"rework_rate", r>> >>)) :
        c \in CoverageValues, r \in ReworkValues}

\* the bundle calculate_sprint_metrics returns for a sprint, by its keys
SprintBundleOf(sprint_id) ==
    PyDict(<< <<"completion_rate", PyFloat(calculate_completion_rate(sprint_id).num,
                                           calculate_completion_rate(sprint_id).den)>>,
              <<"velocity", PyFloat(calculate_sprint_velocity(sprint_id).num, 1)>>,
              <<"quality_score", PyFloat(0, 1)>>,
              <<"burndown", PyDict(<<>>)>>,
              <<"team_satisfaction", PyFloat(0, 1)>> >>)

\* the bundle calculate_team_metrics returns for a team, by its keys
TeamBundleOf(team) ==
    PyDict(<< <<"velocity", PyFloat(calculate_velocity(team, NoDate, NoDate).num,
                                    calculate_velocity(team, NoDate, NoDate).den)>>,
              <<"quality", PyDict(<<>>)>>,
              <<"efficiency", PyDict(<<>>)>>,
              <<"health", PyDict(<<>>)>>,
              <<"trends", PyDict(<<>>)>> >>)

\* bundles handed to the evaluation: the ones the aggregators build, and
\* bundles carrying the keys the evaluation reads, each possibly absent
SprintBundles ==
    {SprintBundleOf(x) : x \in SprintIds}
    \cup {PyDict(DictOf(<< <<"velocity", v>>, <<"quality", q>> >>)) :
            v \in {Missing, PyInt(40), PyInt(100)}, q \in QualityGroups \cup {Missing}}
TeamBundles ==
    {TeamBundleOf(tm) : tm \in Teams}
    \cup {PyDict(DictOf(<< <<"average_velocity", a>> >>)) :
            a \in {Missing, PyNone, PyInt(0), PyInt(100)}}

InitSprintAlertInputs ==
    /\ alertIn \in [sprint_metrics : SprintBundles, team_metrics : TeamBundles]
    /\ alertOut = [done |-> FALSE]

\* metric_alerts.check_quality_alerts(sprint_metrics["quality"]) on its own
CheckQuality ==
    /\ ~alertOut.done
    /\ DictHas(alertIn.sprint_metrics, "quality")
    /\ alertOut' = [done |-> TRUE, fn |-> "check_quality_alerts",
                    ret |-> check_quality_alerts(DictGet(alertIn.sprint_metrics, "quality"))]
    /\ UNCHANGED <<alertIn, redisVars, callVars, dataVars, agentVars, aggVars, calcVars, apiVars>>

CheckSprintAlerts ==
    /\ ~alertOut.done
    /\ alertOut' = [done |-> TRUE, fn |-> "_check_sprint_alerts",
                    ret |-> _check_sprint_alerts(alertIn.sprint_metrics,
                                                 alertIn.team_metrics)]
    /\ UNCHANGED <<alertIn, redisVars, callVars, dataVars, agentVars, aggVars, calcVars, apiVars>>

NextSprintAlerts == CheckQuality \/ CheckSprintAlerts

InitSprintAlertCheck ==
    InitRedis /\ InitData /\ InitAgents /\ InitAgg /\ InitSprintAlertInputs /\ InitCalc /\ InitApi

SpecSprintAlerts == InitSprintAlertCheck /\ [][NextSprintAlerts]_vars

----------------------------------------------------------------------------
(* The metric calculators of app/utils/metrics.py, each on the database     *)
(* rows it reads.  Times are in hours.  Task.metrics holds a dict (the      *)
(* column default is {}), whose entries may be absent.                      *)

\* outcome of a call: the value returned, or the exception that left it
Returned(v)  == [raised |-> "none", value |-> v]
Raised(kind) == [raised |-> kind, value |-> <<>>]

RZero == Ratio(0, 1)
\* a < b and a = b for quotients with positive denominators
RLess(a, b) == a.num * b.den < b.num * a.den
REq(a, b)   == a.num * b.den = b.num * a.den

HoursPerDay == 24

\* the days of a span of h hours counting a started day as a whole one
Days_Started(h) == (h + HoursPerDay - 1) \div HoursPerDay

\* timedelta.days of a span of h hours, h >= 0
Days(h) == h \div HoursPerDay

\* generate_burndown_data for the sprint row (None when the id is unknown).
\* start_date and end_date are datetimes; hasDone tells whether the sprint has
\* a task with status done, whose updated_at.date() is then compared with the
\* datetime current_date.
generate_burndown_data(sprint) ==
    IF sprint = PyNone
    THEN Returned([ideal |-> <<>>, actual |-> <<>>, dates |-> <<>>])
    ELSE
    LET duration == Days(sprint.end_date - sprint.start_date) + 1
        total_points == sprint.planned_points
        ideal == [j \in 1..(duration + 1) |->
                    Ratio(total_points * (duration - (j - 1)), duration)]
        \* current_date = start_date, start_date + 1 day, ... while <= end_date
        steps == {k \in 0..(sprint.end_date - sprint.start_date) :
                    sprint.start_date + k * HoursPerDay <= sprint.end_date}
        actual == [j \in 1..Cardinality(steps) |-> total_points]
        dates == [j \in 1..Cardinality(steps) |->
                    sprint.start_date + (j - 1) * HoursPerDay]
    IN IF duration = 0 THEN Raised("ZeroDivisionError")
       ELSE IF steps # {} /\ sprint.hasDone THEN Raised("TypeError")
       ELSE Returned([ideal |-> ideal, actual |-> actual, dates |-> dates])

\* sprints as the API stores them: end_date after start_date
SprintSpans == {1, 24, 30, 48, 72}
BurndownSprints ==
    {PyNone} \cup
    [start_date : {0, 12}, end_date : {12 + h : h \in SprintSpans},
     planned_points : {0, 40}, hasDone : BOOLEAN]

Burndown ==
    /\ calcIn.fn = "generate_burndown_data"
    /\ calcOut = NoCalc
    /\ calcOut' = [fn |-> calcIn.fn, out |-> generate_burndown_data(calcIn.sprint)]
    /\ UNCHANGED <<calcIn, redisVars, callVars, dataVars, agentVars, aggVars, alertVars, apiVars>>


\* metrics.get(key, default) for a numeric entry
MetricsGet(metrics, key, default) ==
    IF DictHas(metrics, key) THEN DictGet(metrics, key).n ELSE default

RECURSIVE SumOver(_, _)
\* sum(f(row) for row in rows), f given as the sequence of its values
SumOver(values, i) ==
    IF i > Len(values) THEN 0 ELSE values[i] + SumOver(values, i + 1)

\* min(100.0, score) alone, without the floor at 0.0
Clamp100_NoFloor(score) ==
    IF RLess(Ratio(100, 1), score) THEN Ratio(100, 1) ELSE score

\* max(0.0, min(100.0, score))
Clamp100(score) ==
    LET m == IF RLess(Ratio(100, 1), score) THEN Ratio(100, 1) ELSE score
    IN IF RLess(RZero, m) THEN m ELSE RZero

\* calculate_quality_score for the done tasks of a sprint:
\* 100 - total_bugs*10 - code_review_time*0.1 + test_coverage*0.2 with
\* test_coverage the mean over the tasks, written over the denominator 10*n
calculate_quality_score(tasks) ==
    IF tasks = <<>> THEN Returned(RZero)
    ELSE
    LET n == Len(tasks)
        total_bugs == Cardinality({i \in 1..n : tasks[i].type = "bug"})
        code_review_time ==
            SumOver([i \in 1..n |-> MetricsGet(tasks[i].metrics, "review_time", 0)], 1)
        coverage_sum ==
            SumOver([i \in 1..n |-> MetricsGet(tasks[i].metrics, "test_coverage", 0)], 1)
    IN Returned(Clamp100(Ratio(1000 * n - total_bugs * 100 * n - code_review_time * n
                                 + 2 * coverage_sum, 10 * n)))

\* calculate_task_quality for the task row (None when the id is unknown):
\* 100 - bug_count*10 - review_time*0.1 + test_coverage*0.2, over 10
calculate_task_quality(task) ==
    IF task = PyNone THEN Returned(RZero)
    ELSE
    LET review_time == MetricsGet(task.metrics, "review_time", 0)
        bug_count == MetricsGet(task.metrics, "bug_count", 0)
        test_coverage == MetricsGet(task.metrics, "test_coverage", 0)
    IN Returned(Clamp100(Ratio(1000 - bug_count * 100 - review_time + 2 * test_coverage, 10)))

OptionalInt(S) == {Missing} \cup {PyInt(n) : n \in S}

\* done tasks of a sprint, as calculate_quality_score reads them
QualityTasks ==
    {[type |-> ty, metrics |-> PyDict(DictOf(<< <<"review_time", r>>,
                                                 <<"test_coverage", c>> >>))] :
        ty \in {"feature", "bug"}, r \in OptionalInt({0, 2000}),
        c \in OptionalInt({50, 100})}

SeqsUpTo(S, n) == UNION {[1..k -> S] : k \in 0..n}

\* a task row, as calculate_task_quality reads it
QualityTaskRows ==
    {PyNone} \cup
    {[metrics |-> PyDict(DictOf(<< <<"review_time", r>>, <<"bug_count", b>>,
                                   <<"test_coverage", c>> >>))] :
        r \in OptionalInt({0, 2000}), b \in OptionalInt({0, 1, 1000}),
        c \in OptionalInt({0, 100})}

QualityScore ==
    /\ calcIn.fn = "calculate_quality_score"
    /\ calcOut = NoCalc
    /\ calcOut' = [fn |-> calcIn.fn, out |-> calculate_quality_score(calcIn.tasks)]
    /\ UNCHANGED <<calcIn, redisVars, callVars, dataVars, agentVars, aggVars, alertVars, apiVars>>

TaskQuality ==
    /\ calcIn.fn = "calculate_task_quality"
    /\ calcOut = NoCalc
    /\ calcOut' = [fn |-> calcIn.fn, out |-> calculate_task_quality(calcIn.task)]
    /\ UNCHANGED <<calcIn, redisVars, callVars, dataVars, agentVars, aggVars, alertVars, apiVars>>


\* min(100.0, complexity)
CapAt100(x) == IF RLess(Ratio(100, 1), x) THEN Ratio(100, 1) ELSE x

\* calculate_task_complexity for the task row (None when the id is unknown):
\* (story_points/13)*50 + (dependencies/5)*25 + (review_comments/10)*25,
\* written over the denominator 26; dependencies and review_comments are the
\* lengths of the two lists
calculate_task_complexity(task) ==
    IF task = PyNone THEN Returned(RZero)
    ELSE Returned(CapAt100(Ratio(100 * task.story_points + 130 * task.dependencies
                                   + 65 * task.review_comments, 26)))

\* TaskUpdate.story_points is Optional[int] with no bounds; TaskBase allows 1..13
UpdateStoryPoints == {-13, -1, 0, 1, 5, 13, 21}
ComplexityTaskRows ==
    {PyNone} \cup
    [story_points : UpdateStoryPoints, dependencies : {0, 5, 8},
     review_comments : {0, 10, 20}]

TaskComplexity ==
    /\ calcIn.fn = "calculate_task_complexity"
    /\ calcOut = NoCalc
    /\ calcOut' = [fn |-> calcIn.fn, out |-> calculate_task_complexity(calcIn.task)]
    /\ UNCHANGED <<calcIn, redisVars, callVars, dataVars, agentVars, aggVars, alertVars, apiVars>>

\* calculate_rework_rate counting every transition into in_progress
calculate_rework_rate_Counting(task) ==
    IF task = PyNone THEN Returned(0)
    ELSE Returned(Cardinality({i \in 1..Len(task.history) :
                     /\ task.history[i].field = "status"
                     /\ task.history[i].new_value = "in_progress"}))

\* calculate_rework_rate for the task row (None when the id is unknown)
calculate_rework_rate(task) ==
    IF task = PyNone THEN Returned(0)
    ELSE
    LET status_changes == {i \in 1..Len(task.history) :
                             /\ task.history[i].field = "status"
                             /\ task.history[i].new_value = "in_progress"}
        n == Cardinality(status_changes) - 1
    IN Returned(IF n > 0 THEN n ELSE 0)

\* change records of Task.history
HistoryRecords ==
    [field : {"status"}, new_value : {"todo", "in_progress", "in_review", "done"}]
    \cup [field : {"assignee_id"}, new_value : {"in_progress", "u1"}]
HistoryTaskRows ==
    {PyNone} \cup {[history |-> h] : h \in SeqsUpTo(HistoryRecords, MaxHistory)}

ReworkRate ==
    /\ calcIn.fn = "calculate_rework_rate"
    /\ calcOut = NoCalc
    /\ calcOut' = [fn |-> calcIn.fn, out |-> calculate_rework_rate(calcIn.task)]
    /\ UNCHANGED <<calcIn, redisVars, callVars, dataVars, agentVars, aggVars, alertVars, apiVars>>


RECURSIVE GCD(_, _)
GCD(a, b) == IF b = 0 THEN a ELSE GCD(b, a % b)

Abs(n) == IF n < 0 THEN -n ELSE n

\* the same quotient in lowest terms
Lowest(a) ==
    LET g == GCD(Abs(a.num), a.den) IN Ratio(a.num \div g, a.den \div g)

\* a + b and k * a for quotients
RAdd(a, b) == Lowest(Ratio(a.num * b.den + b.num * a.den, a.den * b.den))
RScale(k, a) == Lowest(Ratio(k * a.num, a.den))

RECURSIVE RSum(_, _)
RSum(values, i) ==
    IF i > Len(values) THEN RZero ELSE RAdd(values[i], RSum(values, i + 1))

Reverse(s) == [i \in 1..Len(s) |-> s[Len(s) + 1 - i]]

IsCompleted(sprint) == sprint.status = "completed"

\* .limit(10) of calculate_velocity_stability
StabilityWindow == 10

FirstN(s, n) == IF Len(s) <= n THEN s ELSE SubSeq(s, 1, n)

\* the query of calculate_velocity_stability read over every completed sprint
VelocityWindow_Unlimited(sprints) == Reverse(SelectSeq(sprints, IsCompleted))

\* the query of calculate_velocity_stability: the team's completed sprints,
\* newest end_date first, at most 10.  sprints holds the team's rows by
\* ascending end_date.
VelocityWindow(sprints) == FirstN(Reverse(SelectSeq(sprints, IsCompleted)), StabilityWindow)

\* calculate_velocity_stability computing the trend from the oldest sprint
calculate_velocity_stability_OldestFirst(sprints) ==
    LET window == VelocityWindow(sprints)
        n == Len(window)
        velocities == [i \in 1..n |-> window[i].completed_points]
        total == SumOver(velocities, 1)
        squares == SumOver([i \in 1..n |-> velocities[i] * velocities[i]], 1)
    IN IF n = 0
       THEN Returned([average_velocity |-> RZero, variability_squared |-> RZero,
                      trend |-> RZero])
       ELSE Returned(
              [average_velocity |-> Ratio(total, n),
               variability_squared |->
                   IF total > 0
                   THEN Ratio(n * squares - total * total, total * total)
                   ELSE RZero,
               trend |-> IF n > 1 THEN Ratio(velocities[n] - velocities[1], n)
                         ELSE RZero])

\* calculate_velocity_stability.  variability = np.std(velocities) /
\* avg_velocity * 100 is a non-negative root; the model carries the square of
\* variability / 100, (n * sum(v^2) - sum(v)^2) / sum(v)^2, so that
\* variability > 25 is variability_squared > 1/16.
calculate_velocity_stability(sprints) ==
    LET window == VelocityWindow(sprints)
        n == Len(window)
        velocities == [i \in 1..n |-> window[i].completed_points]
        total == SumOver(velocities, 1)
        squares == SumOver([i \in 1..n |-> velocities[i] * velocities[i]], 1)
    IN IF n = 0
       THEN Returned([average_velocity |-> RZero, variability_squared |-> RZero,
                      trend |-> RZero])
       ELSE Returned(
              [average_velocity |-> Ratio(total, n),
               variability_squared |->
                   IF total > 0
                   THEN Ratio(n * squares - total * total, total * total)
                   ELSE RZero,
               trend |-> IF n > 1 THEN Ratio(velocities[1] - velocities[n], n)
                         ELSE RZero])

\* calculate_quality_metrics for the team's done tasks
calculate_quality_metrics(tasks) ==
    IF tasks = <<>>
    THEN Returned([bug_rate |-> RZero, code_quality |-> RZero, test_coverage |-> RZero])
    ELSE
    LET n == Len(tasks)
        total_bugs == Cardinality({i \in 1..n : tasks[i].type = "bug"})
        quality_sum ==
            SumOver([i \in 1..n |->
                       100 - MetricsGet(tasks[i].metrics, "review_comments", 0) * 2], 1)
        coverage_sum ==
            SumOver([i \in 1..n |-> MetricsGet(tasks[i].metrics, "test_coverage", 0)], 1)
    IN Returned([bug_rate |-> Ratio(total_bugs * 100, n),
                 code_quality |-> Clamp100(Ratio(quality_sum, n)),
                 test_coverage |-> Ratio(coverage_sum, n)])

\* calculate_team_health for the team row (None when the id is unknown) and
\* the team's sprints
calculate_team_health(team, sprints) ==
    IF team = PyNone
    THEN Returned([member_satisfaction |-> RZero, sprint_completion_rate |-> RZero,
                   team_stability |-> RZero])
    ELSE
    LET completed_sprints == SelectSeq(sprints, IsCompleted)
        n == Len(completed_sprints)
        completion_rate ==
            IF n > 0
            THEN LET s == RSum([i \in 1..n |->
                                  IF completed_sprints[i].planned_points # 0
                                  THEN Ratio(completed_sprints[i].completed_points,
                                             completed_sprints[i].planned_points)
                                  ELSE RZero], 1)
                 IN Lowest(Ratio(s.num, s.den * n))
            ELSE RZero
        current_members == team.members
        total_members == current_members
        stability == IF total_members # 0 THEN Ratio(current_members, total_members)
                     ELSE Ratio(1, 1)
        \* completion_rate * 0.7 + stability * 0.3
        satisfaction == RAdd(Lowest(Ratio(7 * completion_rate.num, 10 * completion_rate.den)),
                             Lowest(Ratio(3 * stability.num, 10 * stability.den)))
    IN Returned([member_satisfaction |-> RScale(100, satisfaction),
                 sprint_completion_rate |-> RScale(100, completion_rate),
                 team_stability |-> RScale(100, stability)])

VelocityRecommendation == [type |-> "velocity", severity |-> "high"]
QualityRecommendation  == [type |-> "quality", severity |-> "high"]
HealthRecommendation   == [type |-> "health", severity |-> "medium"]

\* generate_recommendations reading every completed sprint of the team
generate_recommendations_Unlimited(team, sprints, tasks) ==
    LET window == VelocityWindow_Unlimited(sprints)
        n == Len(window)
        total == SumOver([i \in 1..n |-> window[i].completed_points], 1)
        squares == SumOver([i \in 1..n |->
                              window[i].completed_points * window[i].completed_points], 1)
        quality == calculate_quality_metrics(tasks).value
        health == calculate_team_health(team, sprints).value
    IN Returned(
         (IF total > 0 /\ 16 * (n * squares - total * total) > total * total
          THEN <<VelocityRecommendation>> ELSE <<>>)
         \o (IF RLess(Ratio(20, 1), quality.bug_rate)
             THEN <<QualityRecommendation>> ELSE <<>>)
         \o (IF RLess(health.member_satisfaction, Ratio(70, 1))
             THEN <<HealthRecommendation>> ELSE <<>>))

\* generate_recommendations for a team, its sprints and its done tasks
generate_recommendations(team, sprints, tasks) ==
    LET velocity_metrics == calculate_velocity_stability(sprints).value
        quality == calculate_quality_metrics(tasks).value
        health == calculate_team_health(team, sprints).value
    IN Returned(
         (IF RLess(Ratio(1, 16), velocity_metrics.variability_squared)
          THEN <<VelocityRecommendation>> ELSE <<>>)
         \o (IF RLess(Ratio(20, 1), quality.bug_rate)
             THEN <<QualityRecommendation>> ELSE <<>>)
         \o (IF RLess(health.member_satisfaction, Ratio(70, 1))
             THEN <<HealthRecommendation>> ELSE <<>>))

CompletedSprint(planned, completed) ==
    [status |-> "completed", planned_points |-> planned, completed_points |-> completed]

\* sprint rows of a team: completed ones, and one that is still active
SprintRows ==
    {CompletedSprint(p, c) : p \in {0, 50}, c \in {0, 40, 60, 80}}
    \cup {[status |-> "active", planned_points |-> 50, completed_points |-> 40]}

\* histories longer than the window: eleven or twelve sprints by ascending
\* end_date, steady at 60 between the ends
LongHistories ==
    {<<first>> \o [i \in 1..9 |-> CompletedSprint(50, 60)] \o <<last>> :
        first \in SprintRows, last \in SprintRows}
    \cup {<<CompletedSprint(50, 0), CompletedSprint(50, 80)>>
            \o [i \in 1..9 |-> CompletedSprint(50, 60)] \o <<last>> : last \in SprintRows}

SprintHistories == SeqsUpTo(SprintRows, MaxSprints) \cup LongHistories

\* a team row, by its number of members; an unknown team has no sprint
TeamRows == {[members |-> 0], [members |-> 3]}
TeamSlices ==
    {[team |-> PyNone, sprints |-> <<>>]}
    \cup [team : TeamRows, sprints : SprintHistories]

\* done tasks of the team as generate_recommendations reads them
RecommendationTasks ==
    {<<>>,
     <<[type |-> "feature", metrics |-> PyDict(<<>>)]>>,
     <<[type |-> "bug", metrics |-> PyDict(<<>>)],
       [type |-> "feature", metrics |-> PyDict(<< <<"test_coverage", PyInt(50)>> >>)]>>}

VelocityStability ==
    /\ calcIn.fn = "calculate_velocity_stability"
    /\ calcOut = NoCalc
    /\ calcOut' = [fn |-> calcIn.fn, out |-> calculate_velocity_stability(calcIn.sprints)]
    /\ UNCHANGED <<calcIn, redisVars, callVars, dataVars, agentVars, aggVars, alertVars, apiVars>>

TeamHealth ==
    /\ calcIn.fn = "calculate_team_health"
    /\ calcOut = NoCalc
    /\ calcOut' = [fn |-> calcIn.fn,
                   out |-> calculate_team_health(calcIn.team, calcIn.sprints)]
    /\ UNCHANGED <<calcIn, redisVars, callVars, dataVars, agentVars, aggVars, alertVars, apiVars>>

Recommendations ==
    /\ calcIn.fn = "generate_recommendations"
    /\ calcOut = NoCalc
    /\ calcOut' = [fn |-> calcIn.fn,
                   out |-> generate_recommendations(calcIn.team, calcIn.sprints,
                                                    calcIn.tasks)]
    /\ UNCHANGED <<calcIn, redisVars, callVars, dataVars, agentVars, aggVars, alertVars, apiVars>>


RSub(a, b) == Lowest(Ratio(a.num * b.den - b.num * a.den, a.den * b.den))

SeqMin(values) == CHOOSE m \in {values[i] : i \in 1..Len(values)} :
                     \A i \in 1..Len(values) : m <= values[i]
SeqMax(values) == CHOOSE m \in {values[i] : i \in 1..Len(values)} :
                     \A i \in 1..Len(values) : m >= values[i]

DaysPerWeek == 7

\* calculate_efficiency_metrics without the early return for no done task
calculate_efficiency_metrics_Unguarded(tasks, wip) ==
    IF tasks = <<>> THEN Raised("ZeroDivisionError")
    ELSE
    LET n == Len(tasks)
        cycle_total == SumOver([i \in 1..n |-> tasks[i].updated_at - tasks[i].created_at], 1)
        earliest == SeqMin([i \in 1..n |-> tasks[i].created_at])
        latest == SeqMax([i \in 1..n |-> tasks[i].updated_at])
        days == Days(latest - earliest)
    IN Returned([cycle_time |-> Ratio(cycle_total, n),
                 throughput |-> IF days = 0 THEN Ratio(n, 1)
                                ELSE Ratio(n * DaysPerWeek, days),
                 work_in_progress |-> Ratio(wip, 1)])

\* calculate_efficiency_metrics for the team's done tasks and the number of
\* its tasks in progress.  total_weeks = (days / 7) or 1, so throughput is
\* len(tasks) * 7 / days, or len(tasks) when days is 0.
calculate_efficiency_metrics(tasks, wip) ==
    IF tasks = <<>>
    THEN Returned([cycle_time |-> RZero, throughput |-> RZero, work_in_progress |-> RZero])
    ELSE
    LET n == Len(tasks)
        cycle_total == SumOver([i \in 1..n |-> tasks[i].updated_at - tasks[i].created_at], 1)
        earliest == SeqMin([i \in 1..n |-> tasks[i].created_at])
        latest == SeqMax([i \in 1..n |-> tasks[i].updated_at])
        days == Days(latest - earliest)
    IN Returned([cycle_time |-> Ratio(cycle_total, n),
                 throughput |-> IF days = 0 THEN Ratio(n, 1)
                                ELSE Ratio(n * DaysPerWeek, days),
                 work_in_progress |-> Ratio(wip, 1)])

\* calculate_trends for the team's completed sprints by ascending end_date,
\* each with its done tasks, and the team's done tasks and work in progress.
\* The efficiency entry is (throughput*0.4 + (100 - cycle_time)*0.4 +
\* (100 - work_in_progress)*0.2) / 100, the same for every sprint.
calculate_trends(sprints, tasks, wip) ==
    IF sprints = <<>>
    THEN Returned([velocity_trend |-> <<>>, quality_trend |-> <<>>,
                   efficiency_trend |-> <<>>])
    ELSE
    LET metrics == calculate_efficiency_metrics(tasks, wip).value
        weighted == RAdd(RAdd(RScale(4, metrics.throughput),
                              RScale(4, RSub(Ratio(100, 1), metrics.cycle_time))),
                         RScale(2, RSub(Ratio(100, 1), metrics.work_in_progress)))
        efficiency == Ratio(weighted.num, weighted.den * 1000)
    IN Returned([velocity_trend |-> [i \in 1..Len(sprints) |-> sprints[i].velocity],
                 quality_trend |-> [i \in 1..Len(sprints) |->
                                      calculate_quality_score(sprints[i].done).value],
                 efficiency_trend |-> [i \in 1..Len(sprints) |-> efficiency]])

\* done tasks of a team as calculate_efficiency_metrics reads them
EfficiencyTaskRows ==
    {[created_at |-> c, updated_at |-> c + d] : c \in {0, 48}, d \in {0, 30, 72, 336}}
EfficiencySlices ==
    [tasks : SeqsUpTo(EfficiencyTaskRows, MaxDoneTasks), wip : {0, 3}]

\* completed sprints of a team as calculate_trends reads them
TrendSprintRows ==
    [velocity : {0, 40},
     done : {<<>>, <<[type |-> "bug", metrics |-> PyDict(<<>>)]>>}]
TrendSlices ==
    [sprints : SeqsUpTo(TrendSprintRows, MaxTrendSprints),
     tasks : SeqsUpTo(EfficiencyTaskRows, 1), wip : {0, 3}]

Efficiency ==
    /\ calcIn.fn = "calculate_efficiency_metrics"
    /\ calcOut = NoCalc
    /\ calcOut' = [fn |-> calcIn.fn,
                   out |-> calculate_efficiency_metrics(calcIn.tasks, calcIn.wip)]
    /\ UNCHANGED <<calcIn, redisVars, callVars, dataVars, agentVars, aggVars, alertVars, apiVars>>

Trends ==
    /\ calcIn.fn = "calculate_trends"
    /\ calcOut = NoCalc
    /\ calcOut' = [fn |-> calcIn.fn,
                   out |-> calculate_trends(calcIn.sprints, calcIn.tasks, calcIn.wip)]
    /\ UNCHANGED <<calcIn, redisVars, callVars, dataVars, agentVars, aggVars, alertVars, apiVars>>

\* calculate_cycle_time of a done task row, in hours
TaskCycleTime(task) == Ratio(task.updated_at - task.created_at, 1)

\* the bucket of a calendar day: the day itself for interval "day", the week
\* (day 0 opening a week) for interval "week"
BucketOf(day, interval) == IF interval = "day" THEN day ELSE day \div DaysPerWeek

\* analyze_trends for the done tasks of the team in the window, by ascending
\* updated_at.  df.resample(...) yields one bucket per day or week from the
\* first task's bucket to the last one's; an empty bucket has sum 0 and mean
\* NaN, which fillna(0) turns into 0.  The "date" column holds datetime.date
\* objects: resampled is TRUE when pandas resamples on it and FALSE when it
\* rejects the column with TypeError.
analyze_trends(tasks, time_period, resampled) ==
    IF tasks = <<>>
    THEN Returned([velocity_trend |-> <<>>, quality_trend |-> <<>>,
                   efficiency_trend |-> <<>>, dates |-> <<>>])
    ELSE IF ~resampled THEN Raised("TypeError")
    ELSE
    LET interval == IF time_period = "week" THEN "day" ELSE "week"
        n == Len(tasks)
        bucket == [i \in 1..n |-> BucketOf(Days(tasks[i].updated_at), interval)]
        first == SeqMin(bucket)
        last == SeqMax(bucket)
        members(b) == SelectSeq([i \in 1..n |-> i], LAMBDA i : bucket[i] = first + b - 1)
        count(b) == Len(members(b))
        cycle_mean(b) ==
            Lowest(Ratio(SumOver([j \in 1..count(b) |->
                                    TaskCycleTime(tasks[members(b)[j]]).num], 1), count(b)))
        quality_mean(b) ==
            LET total == RSum([j \in 1..count(b) |->
                                 calculate_task_quality(tasks[members(b)[j]]).value], 1)
            IN Lowest(Ratio(total.num, total.den * count(b)))
    IN Returned(
         [velocity_trend |-> [b \in 1..(last - first + 1) |->
              SumOver([j \in 1..count(b) |-> tasks[members(b)[j]].story_points], 1)],
          quality_trend |-> [b \in 1..(last - first + 1) |->
              IF count(b) = 0 THEN RZero ELSE quality_mean(b)],
          efficiency_trend |-> [b \in 1..(last - first + 1) |->
              IF count(b) = 0 THEN RZero ELSE RSub(Ratio(100, 1), cycle_mean(b))],
          dates |-> [b \in 1..(last - first + 1) |-> first + b - 1]])

\* done tasks of the window as analyze_trends reads them
TrendTaskRows ==
    {[created_at |-> u - c, updated_at |-> u, story_points |-> 3,
      metrics |-> PyDict(<<>>)] : u \in {400, 430, 450, 600}, c \in {10, 100, 336}}
TimePeriods == {"week", "month", "quarter", "last_quarter"}

AnalyzeTrends(resampled) ==
    /\ calcIn.fn = "analyze_trends"
    /\ calcOut = NoCalc
    /\ calcOut' = [fn |-> calcIn.fn,
                   out |-> analyze_trends(calcIn.tasks, calcIn.time_period, resampled)]
    /\ UNCHANGED <<calcIn, redisVars, callVars, dataVars, agentVars, aggVars, alertVars, apiVars>>

RECURSIVE Flatten(_)
Flatten(seqs) == IF seqs = <<>> THEN <<>> ELSE Head(seqs) \o Flatten(Tail(seqs))

\* the keys of a dict filled in the order of s: each value at its first place
RECURSIVE FirstSeenOrder(_)
FirstSeenOrder(s) ==
    IF s = <<>> THEN <<>>
    ELSE LET rest == FirstSeenOrder(SubSeq(s, 1, Len(s) - 1))
             x == s[Len(s)]
         IN IF \E i \in 1..Len(rest) : rest[i] = x THEN rest ELSE Append(rest, x)

\* sorted(entries, key=average_time, reverse=True): stable, so entries with the
\* same average keep their order
RECURSIVE SortByAverageDesc(_)
SortByAverageDesc(s) ==
    IF s = <<>> THEN <<>>
    ELSE LET sorted == SortByAverageDesc(SubSeq(s, 1, Len(s) - 1))
             e == s[Len(s)]
             k == Cardinality({i \in 1..Len(sorted) :
                                 ~RLess(sorted[i].average_time, e.average_time)})
         IN SubSeq(sorted, 1, k) \o <<e>> \o SubSeq(sorted, k + 1, Len(sorted))

\* the spans identify_bottlenecks collects from one task: for each status
\* record but the last, its new_value and the hours to the next status record
StatusSpans(history) ==
    LET status_changes == SelectSeq(history, LAMBDA h : h.field = "status")
    IN [i \in 1..(Len(status_changes) - 1) |->
          [status |-> status_changes[i].new_value,
           hours |-> status_changes[i + 1].timestamp - status_changes[i].timestamp]]

\* identify_bottlenecks flagging an average of 24 hours too
identify_bottlenecks_AtLeast(tasks) ==
    LET spans == Flatten([t \in 1..Len(tasks) |-> StatusSpans(tasks[t].history)])
        statuses == FirstSeenOrder([i \in 1..Len(spans) |-> spans[i].status])
        times(s) == SelectSeq(spans, LAMBDA x : x.status = s)
        avg_time(s) ==
            Lowest(Ratio(SumOver([i \in 1..Len(times(s)) |-> times(s)[i].hours], 1),
                         Len(times(s))))
        entry(s) == [status |-> s, average_time |-> avg_time(s),
                     affected_tasks |-> Len(times(s)),
                     severity |-> IF RLess(Ratio(72, 1), avg_time(s)) THEN "high"
                                  ELSE "medium"]
        bottlenecks == SelectSeq([i \in 1..Len(statuses) |-> entry(statuses[i])],
                                 LAMBDA e : ~RLess(e.average_time, Ratio(24, 1)))
    IN IF tasks = <<>> THEN Returned(<<>>)
       ELSE Returned(SortByAverageDesc(bottlenecks))

\* identify_bottlenecks for the done tasks of the team in the window; the
\* timestamps of the history records are in hours
identify_bottlenecks(tasks) ==
    LET spans == Flatten([t \in 1..Len(tasks) |-> StatusSpans(tasks[t].history)])
        statuses == FirstSeenOrder([i \in 1..Len(spans) |-> spans[i].status])
        times(s) == SelectSeq(spans, LAMBDA x : x.status = s)
        avg_time(s) ==
            Lowest(Ratio(SumOver([i \in 1..Len(times(s)) |-> times(s)[i].hours], 1),
                         Len(times(s))))
        entry(s) == [status |-> s, average_time |-> avg_time(s),
                     affected_tasks |-> Len(times(s)),
                     severity |-> IF RLess(Ratio(72, 1), avg_time(s)) THEN "high"
                                  ELSE "medium"]
        bottlenecks == SelectSeq([i \in 1..Len(statuses) |-> entry(statuses[i])],
                                 LAMBDA e : RLess(Ratio(24, 1), e.average_time))
    IN IF tasks = <<>> THEN Returned(<<>>)
       ELSE Returned(SortByAverageDesc(bottlenecks))

\* a history from its records' gaps: each record is stamped the gap of hours
\* after the one before it
RECURSIVE Stamped(_, _)
Stamped(steps, start) ==
    IF steps = <<>> THEN <<>>
    ELSE <<[field |-> Head(steps).field, new_value |-> Head(steps).new_value,
            timestamp |-> start + Head(steps).gap]>>
         \o Stamped(Tail(steps), start + Head(steps).gap)

HistorySteps ==
    [field : {"status"}, new_value : {"todo", "in_progress", "in_review"},
     gap : {24, 48, 96}]
    \cup {[field |-> "assignee_id", new_value |-> "u1", gap |-> 24]}

\* histories ending in done, as a done task has
BottleneckHistories ==
    {Stamped(steps \o <<[field |-> "status", new_value |-> "done", gap |-> g]>>, 0) :
        steps \in SeqsUpTo(HistorySteps, MaxHistory), g \in {24, 96}}

\* a second done task of the window, when there is one
OtherDoneTasks ==
    {Stamped(<< [field |-> "status", new_value |-> "in_review", gap |-> 24],
                [field |-> "status", new_value |-> "done", gap |-> 96] >>, 0),
     Stamped(<< [field |-> "status", new_value |-> "in_progress", gap |-> 24],
                [field |-> "status", new_value |-> "in_review", gap |-> 48],
                [field |-> "status", new_value |-> "done", gap |-> 24] >>, 0),
     <<>>}

BottleneckTasks ==
    {<<>>}
    \cup {<<[history |-> h]>> : h \in BottleneckHistories}
    \cup {<<[history |-> h], [history |-> o]>> :
            h \in BottleneckHistories, o \in OtherDoneTasks}

Bottlenecks ==
    /\ calcIn.fn = "identify_bottlenecks"
    /\ calcOut = NoCalc
    /\ calcOut' = [fn |-> calcIn.fn, out |-> identify_bottlenecks(calcIn.tasks)]
    /\ UNCHANGED <<calcIn, redisVars, callVars, dataVars, agentVars, aggVars, alertVars, apiVars>>

\* Strings are sequences of characters where the characters matter; the
\* code points of the characters used
Ord(c) ==
    CASE c = "1" -> 49 [] c = "2" -> 50 [] c = ":" -> 58
      [] c = "b" -> 98 [] c = "d" -> 100 [] c = "i" -> 105 [] c = "x" -> 120

\* a < b for strings, as sorted() compares the names
RECURSIVE StrLess(_, _)
StrLess(a, b) ==
    IF b = <<>> THEN FALSE
    ELSE IF a = <<>> THEN TRUE
    ELSE IF Head(a) = Head(b) THEN StrLess(Tail(a), Tail(b))
    ELSE Ord(Head(a)) < Ord(Head(b))

\* sorted(kwargs.items()): the names of one call are distinct
RECURSIVE SortedItems(_)
SortedItems(items) ==
    IF items = <<>> THEN <<>>
    ELSE LET sorted == SortedItems(SubSeq(items, 1, Len(items) - 1))
             e == items[Len(items)]
             k == Cardinality({i \in 1..Len(sorted) : StrLess(sorted[i][1], e[1])})
         IN SubSeq(sorted, 1, k) \o <<e>> \o SubSeq(sorted, k + 1, Len(sorted))

RECURSIVE DecimalDigits(_)
DecimalDigits(n) ==
    LET digit == <<"0", "1", "2", "3", "4", "5", "6", "7", "8", "9">>[(n % 10) + 1]
    IN IF n < 10 THEN <<digit>> ELSE Append(DecimalDigits(n \div 10), digit)

\* f"{v}" for a str or a non-negative int
Format(v) == IF v.t = "str" THEN v.s ELSE DecimalDigits(v.n)

\* ":".join(parts)
RECURSIVE Join(_)
Join(parts) ==
    IF Len(parts) = 1 THEN Head(parts)
    ELSE Head(parts) \o <<":">> \o Join(Tail(parts))

\* get_cache_key(prefix, **kwargs); kwargs lists the <<name, value>> items in
\* the order they are passed
get_cache_key(prefix, kwargs) ==
    LET items == SelectSeq(SortedItems(kwargs), LAMBDA kv : kv[2] # PyNone)
        key_parts == <<prefix>> \o
                     [i \in 1..Len(items) |-> items[i][1] \o <<":">> \o Format(items[i][2])]
    IN Join(key_parts)

MaxParams == 2

ParamNames == {<<"i", "d">>, <<"x">>}

ParamValues ==
    {PyNone, PyStr(<<"1">>), PyStr(<<"2">>), PyStr(<<"1", ":", "x", ":", "2">>),
     PyInt(1), PyInt(2)}

Prefixes == {<<"b">>, <<"b", ":", "i", "d", ":", "1">>}

\* the keyword arguments of one call: distinct names, in any order
KeywordArguments ==
    {kw \in SeqsUpTo(ParamNames \X ParamValues, MaxParams) :
        \A i, j \in 1..Len(kw) : i # j => kw[i][1] # kw[j][1]}

CacheKeyCalls == [prefix : Prefixes, kwargs : KeywordArguments]

\* two calls of get_cache_key
GetCacheKey ==
    /\ calcIn.fn = "get_cache_key"
    /\ calcOut = NoCalc
    /\ calcOut' = [fn |-> calcIn.fn,
                   out |-> Returned([i \in 1..2 |->
                              get_cache_key(calcIn.calls[i].prefix,
                                            calcIn.calls[i].kwargs)])]
    /\ UNCHANGED <<calcIn, redisVars, callVars, dataVars, agentVars, aggVars, alertVars, apiVars>>

\* the calls checked: a calculator and the rows it reads
CalcInputs ==
    {[fn |-> "generate_burndown_data", sprint |-> s] : s \in BurndownSprints}
    \cup {[fn |-> "calculate_quality_score", tasks |-> ts] :
            ts \in SeqsUpTo(QualityTasks, MaxDoneTasks)}
    \cup {[fn |-> "calculate_task_quality", task |-> k] : k \in QualityTaskRows}
    \cup {[fn |-> "calculate_task_complexity", task |-> k] : k \in ComplexityTaskRows}
    \cup {[fn |-> "calculate_rework_rate", task |-> k] : k \in HistoryTaskRows}
    \cup {[fn |-> "calculate_velocity_stability", sprints |-> h] : h \in SprintHistories}
    \cup {[fn |-> "calculate_team_health", team |-> x.team, sprints |-> x.sprints] :
            x \in TeamSlices}
    \cup {[fn |-> "generate_recommendations", team |-> x.team, sprints |-> x.sprints,
           tasks |-> ts] : x \in TeamSlices, ts \in RecommendationTasks}
    \cup {[fn |-> "calculate_efficiency_metrics", tasks |-> x.tasks, wip |-> x.wip] :
            x \in EfficiencySlices}
    \cup {[fn |-> "calculate_trends", sprints |-> x.sprints, tasks |-> x.tasks,
           wip |-> x.wip] : x \in TrendSlices}
    \cup {[fn |-> "analyze_trends", tasks |-> ts, time_period |-> tp] :
            ts \in SeqsUpTo(TrendTaskRows, MaxDoneTasks), tp \in TimePeriods}
    \cup {[fn |-> "identify_bottlenecks", tasks |-> ts] : ts \in BottleneckTasks}
    \cup {[fn |-> "get_cache_key", calls |-> <<a, b>>] :
            a \in CacheKeyCalls, b \in CacheKeyCalls}

InitCalcInputs ==
    /\ calcIn \in CalcInputs
    /\ calcOut = NoCalc

NextCalc ==
    \/ Burndown
    \/ QualityScore
    \/ TaskQuality
    \/ TaskComplexity
    \/ ReworkRate
    \/ VelocityStability
    \/ TeamHealth
    \/ Recommendations
    \/ Efficiency
    \/ Trends
    \/ \E resampled \in BOOLEAN : AnalyzeTrends(resampled)
    \/ Bottlenecks
    \/ GetCacheKey

InitCalcCheck ==
    InitRedis /\ InitData /\ InitAgents /\ InitAgg /\ InitAlerts /\ InitCalcInputs /\ InitApi

SpecCalc == InitCalcCheck /\ [][NextCalc]_vars

----------------------------------------------------------------------------
(* A board behind its cache entry: app/api/endpoints/boards.py.  Each await
   of a handler is one step of the request. *)

MaxBoardUpdates == 2

\* the contents the board takes: 0 at first, then one per committed update
BoardContents == 0..MaxBoardUpdates

\* json.dumps raises TypeError on a datetime
RECURSIVE JsonSerializable(_)
JsonSerializable(v) ==
    CASE v.t = "datetime" -> FALSE
      [] v.t = "list" -> \A i \in 1..Len(v.l) : JsonSerializable(v.l[i])
      [] v.t = "dict" -> \A i \in 1..Len(v.items) : JsonSerializable(v.items[i][2])
      [] OTHER -> TRUE

\* a board response with its dates already as ISO text
BoardResponseDict_IsoDates(content) ==
    PyDict(<< <<"name", PyStr(<<ToString(content)>>)>>,
              <<"created_at", IsoFormat(PyDateTime(0))>> >>)

\* BoardResponse.model_validate(board).dict(): the fields as Python values;
\* created_at is a datetime
BoardResponseDict(content) ==
    PyDict(<< <<"name", PyStr(<<ToString(content)>>)>>,
              <<"created_at", PyDateTime(0)>> >>)

\* the JSON documents a board entry can hold, and json.loads on their texts
JsonDocuments ==
    {PyDict(<< <<"name", PyStr(<<ToString(c)>>)>>,
               <<"created_at", IsoFormat(PyDateTime(0))>> >>) : c \in BoardContents}

JsonLoads(text) == CHOOSE v \in JsonDocuments : JsonDumps(v) = text

\* RedisService.set_json on the board entry: json.dumps(value) is evaluated
\* first and its TypeError is caught with everything else; the text is then
\* stored by RedisService.set (the entry's 300 s outlast the requests here)
set_json(entry, value, fail) ==
    IF ~JsonSerializable(value) \/ fail
    THEN [entry |-> entry, ret |-> FALSE]
    ELSE [entry |-> PyStr(JsonDumps(value)), ret |-> TRUE]

\* RedisService.get_json on the board entry
get_json(entry, fail) ==
    IF fail \/ ~Truthy(entry) THEN PyNone ELSE JsonLoads(entry.s)

Max2(a, b) == IF a < b THEN b ELSE a

\* a request arrives for the handler op
BoardRequest(p, op) ==
    /\ boardReq[p].pc = "idle"
    /\ op = "update_board" =>
          Cardinality({q \in BoardProcs : boardReq[q].op = op}) < MaxBoardUpdates
    /\ boardReq' = [boardReq EXCEPT ![p] =
          [op |-> op, pc |-> IF op = "get_board" THEN "get_json" ELSE "db_get",
           read |-> 0, floor |-> boardFloor, res |-> PyNone]]
    /\ UNCHANGED <<boardDb, boardCache, boardFloor>>
    /\ UNCHANGED <<coreVars, authVars, schedVars, wsVars, taskVars, reportVars>>

\* get_board: cached_data = await redis.get_json(cache_key)
GetBoardCached(p, fail) ==
    LET cached_data == get_json(boardCache, fail) IN
    /\ boardReq[p].op = "get_board" /\ boardReq[p].pc = "get_json"
    /\ boardReq' = [boardReq EXCEPT ![p] =
          IF Truthy(cached_data)
          THEN [@ EXCEPT !.pc = "done", !.res = cached_data]
          ELSE [@ EXCEPT !.pc = "db_get"]]
    /\ UNCHANGED <<boardDb, boardCache, boardFloor>>
    /\ UNCHANGED <<coreVars, authVars, schedVars, wsVars, taskVars, reportVars>>

\* get_board: board = await db.get(Board, board_id), then the permission check
GetBoardRead(p, allowed) ==
    /\ boardReq[p].op = "get_board" /\ boardReq[p].pc = "db_get"
    /\ boardReq' = [boardReq EXCEPT ![p] =
          IF allowed
          THEN [@ EXCEPT !.pc = "set_json", !.read = boardDb]
          ELSE [@ EXCEPT !.pc = "done", !.res = PyExc("HTTPException")]]
    /\ UNCHANGED <<boardDb, boardCache, boardFloor>>
    /\ UNCHANGED <<coreVars, authVars, schedVars, wsVars, taskVars, reportVars>>

\* get_board: await redis.set_json(cache_key, response.dict(), expire=300) and
\* return response
GetBoardStore(p, fail) ==
    LET r == set_json(boardCache, BoardResponseDict(boardReq[p].read), fail) IN
    /\ boardReq[p].op = "get_board" /\ boardReq[p].pc = "set_json"
    /\ boardCache' = r.entry
    /\ boardReq' = [boardReq EXCEPT ![p] =
          [@ EXCEPT !.pc = "done", !.res = BoardResponseDict(boardReq[p].read)]]
    /\ UNCHANGED <<boardDb, boardFloor>>
    /\ UNCHANGED <<coreVars, authVars, schedVars, wsVars, taskVars, reportVars>>

\* update_board: board = await db.get(Board, board_id), permission check,
\* setattr of the new fields
UpdateBoardRead(p, allowed) ==
    /\ boardReq[p].op = "update_board" /\ boardReq[p].pc = "db_get"
    /\ boardReq' = [boardReq EXCEPT ![p] =
          IF allowed
          THEN [@ EXCEPT !.pc = "commit"]
          ELSE [@ EXCEPT !.pc = "done", !.res = PyExc("HTTPException")]]
    /\ UNCHANGED <<boardDb, boardCache, boardFloor>>
    /\ UNCHANGED <<coreVars, authVars, schedVars, wsVars, taskVars, reportVars>>

\* update_board: await db.commit(); a failed commit is rolled back and
\* answered with 500
UpdateBoardCommit(p, fail) ==
    /\ boardReq[p].op = "update_board" /\ boardReq[p].pc = "commit"
    /\ IF fail
       THEN /\ boardReq' = [boardReq EXCEPT ![p] =
                  [@ EXCEPT !.pc = "done", !.res = PyExc("HTTPException")]]
            /\ UNCHANGED boardDb
       ELSE /\ boardDb' = boardDb + 1
            /\ boardReq' = [boardReq EXCEPT ![p] =
                  [@ EXCEPT !.pc = "delete", !.read = boardDb + 1]]
    /\ UNCHANGED <<boardCache, boardFloor>>
    /\ UNCHANGED <<coreVars, authVars, schedVars, wsVars, taskVars, reportVars>>

\* update_board: await redis.delete(f"board:{board_id}"); RedisService.delete
\* returns False when the client raises
UpdateBoardInvalidate(p, fail) ==
    /\ boardReq[p].op = "update_board" /\ boardReq[p].pc = "delete"
    /\ boardCache' = IF fail THEN boardCache ELSE PyNone
    /\ boardReq' = [boardReq EXCEPT ![p] = [@ EXCEPT !.pc = "delete_pattern"]]
    /\ UNCHANGED <<boardDb, boardFloor>>
    /\ UNCHANGED <<coreVars, authVars, schedVars, wsVars, taskVars, reportVars>>

\* update_board: await redis.delete_pattern("boards:list:*"), which touches
\* no board:<id> entry, and the return.  When the call raises (the
\* RedisService under src/ defines no delete_pattern) the exception is caught,
\* the rollback finds nothing to undo and the request is answered with 500.
UpdateBoardReturn(p, fail) ==
    /\ boardReq[p].op = "update_board" /\ boardReq[p].pc = "delete_pattern"
    /\ boardReq' = [boardReq EXCEPT ![p] =
          [@ EXCEPT !.pc = "done",
                    !.res = IF fail THEN PyExc("HTTPException")
                            ELSE BoardResponseDict(boardReq[p].read)]]
    /\ boardFloor' = Max2(boardFloor, boardReq[p].read)
    /\ UNCHANGED <<boardDb, boardCache>>
    /\ UNCHANGED <<coreVars, authVars, schedVars, wsVars, taskVars, reportVars>>

NextBoards ==
    \/ \E p \in BoardProcs, op \in {"get_board", "update_board"} : BoardRequest(p, op)
    \/ \E p \in BoardProcs, fail \in BOOLEAN : GetBoardCached(p, fail)
    \/ \E p \in BoardProcs, allowed \in BOOLEAN : GetBoardRead(p, allowed)
    \/ \E p \in BoardProcs, fail \in BOOLEAN : GetBoardStore(p, fail)
    \/ \E p \in BoardProcs, allowed \in BOOLEAN : UpdateBoardRead(p, allowed)
    \/ \E p \in BoardProcs, fail \in BOOLEAN : UpdateBoardCommit(p, fail)
    \/ \E p \in BoardProcs, fail \in BOOLEAN : UpdateBoardInvalidate(p, fail)
    \/ \E p \in BoardProcs, fail \in BOOLEAN : UpdateBoardReturn(p, fail)

SpecBoards == Init /\ [][NextBoards]_vars

----------------------------------------------------------------------------
(* The login rate limit: app/api/endpoints/auth.py over the Redis entry
   login_attempts:<email> of one email.  Each await is one step. *)

MAX_LOGIN_ATTEMPTS == 5
LOGIN_TIMEOUT_MINUTES == 15
MaxLogins == 6
MaxAuthTicks == 2

\* int(text) for the decimal text of a counter
RECURSIVE ParseInt(_)
ParseInt(digits) ==
    IF digits = <<>> THEN 0
    ELSE 10 * ParseInt(SubSeq(digits, 1, Len(digits) - 1))
         + (CHOOSE d \in 0..9 : DecimalDigits(d) = <<digits[Len(digits)]>>)

\* RedisService.get on the entry: None when it is missing or the client raises
LoginKeyGet(entry, fail) == IF fail THEN PyNone ELSE entry.val

\* RedisService.set(key, "1", expire=...): SET with EX
LoginKeySet(entry, text, expire, fail) ==
    IF fail THEN entry ELSE [val |-> PyStr(text), exp |-> authNow + expire]

\* RedisService.incr: INCR adds one to the counter and leaves its expiry as
\* it is; a missing key counts as 0 and is created with no expiry
LoginKeyIncr(entry, fail) ==
    IF fail THEN entry
    ELSE IF entry.val = PyNone THEN [val |-> PyStr(DecimalDigits(1)), exp |-> NoExpiry]
    ELSE [entry EXCEPT !.val = PyStr(DecimalDigits(ParseInt(entry.val.s) + 1))]

\* RedisService.delete
LoginKeyDelete(entry, fail) == IF fail THEN entry ELSE NoLoginKey

LookupOutcomes == {"raises", "bad credentials", "good credentials"}

\* the requests made so far
LoginsStarted == SumOver([i \in 1..2 |-> loginReq[<<"l1", "l2">>[i]].n], 1)

\* POST /login arrives
Login(p) ==
    /\ loginReq[p].pc \in {"idle", "done"}
    /\ LoginsStarted < MaxLogins
    /\ loginReq' = [loginReq EXCEPT ![p] =
          [pc |-> "check", attempts |-> PyNone, status |-> 0, n |-> @.n + 1]]
    /\ UNCHANGED <<loginKey, authNow>>
    /\ UNCHANGED <<coreVars, boardVars, schedVars, wsVars, taskVars, reportVars>>

\* check_login_rate_limit
CheckLoginRateLimit(p, fail) ==
    LET attempts == LoginKeyGet(loginKey, fail) IN
    /\ loginReq[p].pc = "check"
    /\ loginReq' = [loginReq EXCEPT ![p] =
          IF Truthy(attempts) /\ ParseInt(attempts.s) >= MAX_LOGIN_ATTEMPTS
          THEN [@ EXCEPT !.pc = "done", !.status = 429]
          ELSE [@ EXCEPT !.pc = "lookup"]]
    /\ UNCHANGED <<loginKey, authNow>>
    /\ UNCHANGED <<coreVars, boardVars, schedVars, wsVars, taskVars, reportVars>>

\* login: user = await monday_service.get_user_by_email(email) and the test
\* `not user or not verify_password(...)`.  A call that raises (the
\* MondayService under src/ defines no get_user_by_email) is answered with 500.
LoginLookup(p, outcome) ==
    /\ loginReq[p].pc = "lookup"
    /\ loginReq' = [loginReq EXCEPT ![p] =
          CASE outcome = "raises" -> [@ EXCEPT !.pc = "done", !.status = 500]
            [] outcome = "bad credentials" -> [@ EXCEPT !.pc = "incr_get"]
            [] outcome = "good credentials" -> [@ EXCEPT !.pc = "reset"]]
    /\ UNCHANGED <<loginKey, authNow>>
    /\ UNCHANGED <<coreVars, boardVars, schedVars, wsVars, taskVars, reportVars>>

\* increment_login_attempts: attempts = await redis.get(key)
IncrementLoginAttemptsRead(p, fail) ==
    /\ loginReq[p].pc = "incr_get"
    /\ loginReq' = [loginReq EXCEPT ![p] =
          [@ EXCEPT !.pc = "incr_put", !.attempts = LoginKeyGet(loginKey, fail)]]
    /\ UNCHANGED <<loginKey, authNow>>
    /\ UNCHANGED <<coreVars, boardVars, schedVars, wsVars, taskVars, reportVars>>

\* increment_login_attempts: set with the timeout when no counter was read,
\* incr otherwise; login then answers 401
IncrementLoginAttemptsWrite(p, fail) ==
    /\ loginReq[p].pc = "incr_put"
    /\ loginKey' = IF ~Truthy(loginReq[p].attempts)
                   THEN LoginKeySet(loginKey, <<"1">>, LOGIN_TIMEOUT_MINUTES * 60, fail)
                   ELSE LoginKeyIncr(loginKey, fail)
    /\ loginReq' = [loginReq EXCEPT ![p] = [@ EXCEPT !.pc = "done", !.status = 401]]
    /\ UNCHANGED authNow
    /\ UNCHANGED <<coreVars, boardVars, schedVars, wsVars, taskVars, reportVars>>

\* reset_login_attempts after a good login; login then answers with the token
ResetLoginAttempts(p, fail) ==
    /\ loginReq[p].pc = "reset"
    /\ loginKey' = LoginKeyDelete(loginKey, fail)
    /\ loginReq' = [loginReq EXCEPT ![p] = [@ EXCEPT !.pc = "done", !.status = 200]]
    /\ UNCHANGED authNow
    /\ UNCHANGED <<coreVars, boardVars, schedVars, wsVars, taskVars, reportVars>>

\* time passes; the server drops the entry once its expiry time is reached
AuthTick(d) ==
    /\ authNow + d <= MaxAuthTicks * LOGIN_TIMEOUT_MINUTES * 60
    /\ authNow' = authNow + d
    /\ loginKey' = IF loginKey.exp # NoExpiry /\ loginKey.exp <= authNow + d
                   THEN NoLoginKey ELSE loginKey
    /\ UNCHANGED loginReq
    /\ UNCHANGED <<coreVars, boardVars, schedVars, wsVars, taskVars, reportVars>>

NextAuth ==
    \/ \E p \in LoginProcs : Login(p)
    \/ \E p \in LoginProcs, fail \in BOOLEAN : CheckLoginRateLimit(p, fail)
    \/ \E p \in LoginProcs, outcome \in LookupOutcomes : LoginLookup(p, outcome)
    \/ \E p \in LoginProcs, fail \in BOOLEAN : IncrementLoginAttemptsRead(p, fail)
    \/ \E p \in LoginProcs, fail \in BOOLEAN : IncrementLoginAttemptsWrite(p, fail)
    \/ \E p \in LoginProcs, fail \in BOOLEAN : ResetLoginAttempts(p, fail)
    \/ AuthTick(LOGIN_TIMEOUT_MINUTES * 60)

SpecAuth == Init /\ [][NextAuth]_vars

----------------------------------------------------------------------------
(* Scheduled pipelines: app/services/scheduler_service.py.  A run of a job is
   wrapped_func: it starts, awaits pipeline.func() and finishes later. *)

MaxInstances == 2
MaxErrors == 2

\* add_pipeline(Pipeline(name=n, ...)): the job is added to the scheduler
AddPipeline(n) ==
    /\ ~pipelines[n].added
    /\ pipelines' = [pipelines EXCEPT ![n] =
          [added |-> TRUE, job |-> "scheduled", status |-> "stopped", enabled |-> TRUE,
           error_count |-> 0, running |-> 0]]
    /\ UNCHANGED pausedOk
    /\ UNCHANGED <<coreVars, boardVars, authVars, wsVars, taskVars, reportVars>>

\* remove_pipeline: the job is removed and the pipeline forgotten; the runs
\* under way finish on the Pipeline object nobody looks up any more
RemovePipeline(n) ==
    /\ pipelines[n].added
    /\ pipelines' = [pipelines EXCEPT ![n] = NoPipeline]
    /\ pausedOk' = pausedOk \ {n}
    /\ UNCHANGED <<coreVars, boardVars, authVars, wsVars, taskVars, reportVars>>

\* pause_pipeline returning True: job.pause() and status = PAUSED
PausePipeline(n) ==
    /\ pipelines[n].added
    /\ pipelines' = [pipelines EXCEPT ![n] = [@ EXCEPT !.job = "paused", !.status = "paused"]]
    /\ pausedOk' = pausedOk \cup {n}
    /\ UNCHANGED <<coreVars, boardVars, authVars, wsVars, taskVars, reportVars>>

\* resume_pipeline returning True: job.resume() and status = RUNNING
ResumePipeline(n) ==
    /\ pipelines[n].added
    /\ pipelines' = [pipelines EXCEPT ![n] =
          [@ EXCEPT !.job = "scheduled", !.status = "running"]]
    /\ pausedOk' = pausedOk \ {n}
    /\ UNCHANGED <<coreVars, boardVars, authVars, wsVars, taskVars, reportVars>>

\* the trigger fires a job that is not paused: wrapped_func up to its await
RunStart(n) ==
    /\ pipelines[n].added /\ pipelines[n].job = "scheduled"
    /\ pipelines[n].running < MaxInstances
    /\ pipelines' = [pipelines EXCEPT ![n] =
          [@ EXCEPT !.status = "running", !.running = @ + 1]]
    /\ UNCHANGED pausedOk
    /\ UNCHANGED <<coreVars, boardVars, authVars, wsVars, taskVars, reportVars>>

\* wrapped_func after pipeline.func(): the error count, the except branch and
\* the finally, which sets status from pipeline.enabled alone
wrapped_func_finish(p, raised) ==
    [p EXCEPT !.running = @ - 1,
              !.error_count = IF raised THEN @ + 1 ELSE 0,
              !.status = IF p.enabled THEN "running" ELSE "stopped"]

\* a run under way finishes
RunFinish(n, raised) ==
    /\ pipelines[n].running > 0
    /\ raised => pipelines[n].error_count < MaxErrors
    /\ pipelines' = [pipelines EXCEPT ![n] = wrapped_func_finish(@, raised)]
    /\ UNCHANGED pausedOk
    /\ UNCHANGED <<coreVars, boardVars, authVars, wsVars, taskVars, reportVars>>

\* get_pipeline_status(n)["status"], None for an unknown pipeline
get_pipeline_status(n) ==
    IF pipelines[n].added THEN PyStr(pipelines[n].status) ELSE PyNone

NextScheduler ==
    \/ \E n \in PipelineNames : AddPipeline(n)
    \/ \E n \in PipelineNames : RemovePipeline(n)
    \/ \E n \in PipelineNames : PausePipeline(n)
    \/ \E n \in PipelineNames : ResumePipeline(n)
    \/ \E n \in PipelineNames : RunStart(n)
    \/ \E n \in PipelineNames, raised \in BOOLEAN : RunFinish(n, raised)

SpecScheduler == Init /\ [][NextScheduler]_vars

----------------------------------------------------------------------------
(* Channel presence: CommunicationManager of app/services/websocket_service.py,
   driven by the channel_websocket endpoint and by messages sent to channels *)

MaxSockets == 3

Sockets == 1..MaxSockets
Users == {"u1", "u2"}

\* d.get(c, set()) for one of the manager's dicts
MembersOf(d, c) == IF d[c].present THEN d[c].members ELSE {}

\* the websockets of a channel after broadcast_to_channel: a send to a closed
\* websocket fails and the connection is discarded; presence is not touched
broadcast_to_channel(connections, c) ==
    IF connections[c].present
    THEN [connections EXCEPT ![c].members = @ \ closed]
    ELSE connections

\* channel_presence after disconnect_from_channel(w, c, u)
disconnect_presence(w, c, u) ==
    LET left == channel_connections[c].members \ {w} IN
    IF ~channel_connections[c].present THEN channel_presence
    ELSE IF left = {} THEN [channel_presence EXCEPT ![c] = NoChannel]
    ELSE [channel_presence EXCEPT ![c].members = @ \ {u}]

\* channel_websocket up to its receive loop: connect_to_channel accepts the
\* websocket, adds it and the user, and broadcasts the user_joined event
ConnectToChannel(w, c, u) ==
    LET added == [channel_connections EXCEPT
                     ![c] = [present |-> TRUE, members |-> MembersOf(channel_connections, c) \cup {w}]]
    IN
    /\ \A x \in accepted : x[1] # w
    /\ w \notin closed
    /\ channel_connections' = broadcast_to_channel(added, c)
    /\ channel_presence' = [channel_presence EXCEPT
          ![c] = [present |-> TRUE, members |-> MembersOf(channel_presence, c) \cup {u}]]
    /\ accepted' = accepted \cup {<<w, c, u>>}
    /\ UNCHANGED closed
    /\ UNCHANGED <<coreVars, boardVars, authVars, schedVars, taskVars, reportVars>>

\* the peer of a websocket goes away
SocketCloses(w) ==
    /\ \E x \in accepted : x[1] = w
    /\ w \notin closed
    /\ closed' = closed \cup {w}
    /\ UNCHANGED <<channel_connections, channel_presence, accepted>>
    /\ UNCHANGED <<coreVars, boardVars, authVars, schedVars, taskVars, reportVars>>

\* channel_websocket on WebSocketDisconnect: disconnect_from_channel with the
\* websocket, channel and user of the handler
DisconnectFromChannel(w, c, u) ==
    LET left == channel_connections[c].members \ {w} IN
    /\ <<w, c, u>> \in accepted
    /\ w \in closed
    /\ channel_connections' =
          IF ~channel_connections[c].present THEN channel_connections
          ELSE IF left = {} THEN [channel_connections EXCEPT ![c] = NoChannel]
          ELSE [channel_connections EXCEPT ![c].members = left]
    /\ channel_presence' = disconnect_presence(w, c, u)
    /\ accepted' = accepted \ {<<w, c, u>>}
    /\ UNCHANGED closed
    /\ UNCHANGED <<coreVars, boardVars, authVars, schedVars, taskVars, reportVars>>

\* send_channel_message: a message is broadcast to the channel (a broadcast
\* that drops no websocket changes nothing)
BroadcastToChannel(c) ==
    /\ channel_connections' = broadcast_to_channel(channel_connections, c)
    /\ channel_connections' # channel_connections
    /\ UNCHANGED <<channel_presence, accepted, closed>>
    /\ UNCHANGED <<coreVars, boardVars, authVars, schedVars, taskVars, reportVars>>

\* get_channel_presence
get_channel_presence(c) == MembersOf(channel_presence, c)

NextChannels ==
    \/ \E w \in Sockets, c \in Channels, u \in Users : ConnectToChannel(w, c, u)
    \/ \E w \in Sockets : SocketCloses(w)
    \/ \E w \in Sockets, c \in Channels, u \in Users : DisconnectFromChannel(w, c, u)
    \/ \E c \in Channels : BroadcastToChannel(c)

SpecChannels == Init /\ [][NextChannels]_vars

----------------------------------------------------------------------------
(* Task status changes: PUT /tasks/{task_id} of app/api/endpoints/tasks.py *)

\* class TaskStatus(str, Enum): member name -> value
TaskStatus ==
    [BACKLOG |-> "backlog", TODO |-> "todo", IN_PROGRESS |-> "in_progress",
     IN_REVIEW |-> "in_review", BLOCKED |-> "blocked", DONE |-> "done"]

TaskStatusValues == {TaskStatus[m] : m \in DOMAIN TaskStatus}

\* the dict literal of update_task, by member names: key -> allowed targets
ValidTransitionNames ==
    << <<"TODO", <<"IN_PROGRESS">> >>,
       <<"IN_PROGRESS", <<"REVIEW", "DONE">> >>,
       <<"REVIEW", <<"IN_PROGRESS", "DONE">> >>,
       <<"DONE", <<"IN_PROGRESS">> >> >>

\* evaluating the literal: TaskStatus.<name> raises AttributeError for a name
\* the enum does not define; otherwise the dict, as <<status, targets>> items
valid_transitions ==
    LET names == UNION {{ValidTransitionNames[i][1]} \cup
                        {ValidTransitionNames[i][2][j] :
                            j \in 1..Len(ValidTransitionNames[i][2])} :
                        i \in 1..Len(ValidTransitionNames)}
    IN IF names \subseteq DOMAIN TaskStatus
       THEN Returned([i \in 1..Len(ValidTransitionNames) |->
                <<TaskStatus[ValidTransitionNames[i][1]],
                  {TaskStatus[ValidTransitionNames[i][2][j]] :
                      j \in 1..Len(ValidTransitionNames[i][2])}>>])
       ELSE Raised("AttributeError")

\* valid_transitions.get(status, [])
TransitionsFrom(d, status) ==
    IF \E i \in 1..Len(d) : d[i][1] = status
    THEN d[CHOOSE i \in 1..Len(d) : d[i][1] = status][2]
    ELSE {}

NoStatus == "none"
TaskLookups == {"raises", "missing", "found"}

\* the HTTP status update_task answers with, for a task whose status is
\* existing and a TaskUpdate whose status is requested (NoStatus when unset).
\* lookup is what monday_service.get_task does (the MondayService under src/
\* defines no get_task: the call raises), allowed the permission check, fail
\* whether monday_service.update_task raises.
update_task_response(existing, requested, lookup, allowed, fail) ==
    IF lookup = "raises" THEN 500
    ELSE IF lookup = "missing" THEN 404
    ELSE IF ~allowed THEN 403
    ELSE IF requested # NoStatus /\ valid_transitions.raised # "none" THEN 500
    ELSE IF /\ requested # NoStatus
            /\ existing # requested
            /\ requested \notin TransitionsFrom(valid_transitions.value, existing)
         THEN 400
    ELSE IF fail THEN 500
    ELSE 200

\* PUT /tasks/{task_id}
UpdateTask(task_id, requested, lookup, allowed, fail) ==
    LET code == update_task_response(taskStatus[task_id], requested, lookup, allowed, fail)
    IN
    /\ taskStatus' = IF code = 200 /\ requested # NoStatus
                     THEN [taskStatus EXCEPT ![task_id] = requested]
                     ELSE taskStatus
    /\ taskLog' = [task |-> task_id, status |-> requested, code |-> code]
    /\ UNCHANGED <<coreVars, boardVars, authVars, schedVars, wsVars, reportVars>>

\* the tasks of the board, in any status
InitTaskStatuses ==
    /\ taskStatus \in [Tasks -> TaskStatusValues]
    /\ taskLog = NoResponse

NextTasks ==
    \E task_id \in Tasks, requested \in TaskStatusValues \cup {NoStatus},
       lookup \in TaskLookups, allowed \in BOOLEAN, fail \in BOOLEAN :
        UpdateTask(task_id, requested, lookup, allowed, fail)

InitTasksCheck ==
    InitRedis /\ InitData /\ InitAgents /\ InitAgg /\ InitAlerts /\ InitCalc
    /\ InitBoards /\ InitAuth /\ InitScheduler /\ InitChannels /\ InitTaskStatuses
    /\ InitReports

SpecTasks == InitTasksCheck /\ [][NextTasks]_vars

----------------------------------------------------------------------------
(* The scheduled team reports of app/agents/team_lead_agent.py: one try
   around the loop over the teams *)

MaxTeams == 3

\* a team of the list: the state of its active sprint, and whether a call made
\* for it (metrics, assistant, Slack) raises
ReportTeams == [sprint : {"none", "planned", "in_progress"}, raises : BOOLEAN]

ReportKinds ==
    {"send_friday_sprint_report", "send_wednesday_progress_report", "send_next_week_kpis"}

\* the team is passed over by the loop's `continue`
Skipped(kind, team) ==
    CASE kind = "send_friday_sprint_report" -> team.sprint = "none"
      [] kind = "send_wednesday_progress_report" -> team.sprint # "in_progress"
      [] kind = "send_next_week_kpis" -> FALSE

\* the processing of the team raises: one of its calls does, or, in the Friday
\* report, _check_sprint_alerts on the bundles the calculators return
TeamRaises(kind, team) ==
    \/ team.raises
    \/ /\ kind = "send_friday_sprint_report"
       /\ IsExc(CheckSprintAlertsError(SprintMetricsKeys, TeamMetricsKeys))

\* the report is called by the scheduler: teams = await get_teams()
ReportStarts(fail) ==
    /\ report.state = "scheduled"
    /\ report' = [report EXCEPT !.state = IF fail THEN "no teams" ELSE "looping"]
    /\ UNCHANGED <<coreVars, boardVars, authVars, schedVars, wsVars, taskVars>>

\* one pass of `for team in teams`: continue, or the team's calls and its
\* message; an exception leaves the loop for the handler of the one try
ReportLoopStep(r) ==
    LET team == r.teams[r.i] IN
    IF Skipped(r.kind, team) THEN [r EXCEPT !.i = @ + 1]
    ELSE IF TeamRaises(r.kind, team) THEN [r EXCEPT !.state = "failed"]
    ELSE [r EXCEPT !.i = @ + 1, !.sent = @ \cup {r.i}]

ReportTeam ==
    /\ report.state = "looping"
    /\ report.i <= Len(report.teams)
    /\ report' = ReportLoopStep(report)
    /\ UNCHANGED <<coreVars, boardVars, authVars, schedVars, wsVars, taskVars>>

\* the loop is over
ReportReturns ==
    /\ report.state = "looping"
    /\ report.i > Len(report.teams)
    /\ report' = [report EXCEPT !.state = "returned"]
    /\ UNCHANGED <<coreVars, boardVars, authVars, schedVars, wsVars, taskVars>>

InitReportRuns ==
    report \in [kind : ReportKinds, teams : SeqsUpTo(ReportTeams, MaxTeams),
                i : {1}, sent : {{}}, state : {"scheduled"}]

NextReports ==
    \/ \E fail \in BOOLEAN : ReportStarts(fail)
    \/ ReportTeam
    \/ ReportReturns

InitReportsCheck ==
    InitRedis /\ InitData /\ InitAgents /\ InitAgg /\ InitAlerts /\ InitCalc
    /\ InitBoards /\ InitAuth /\ InitScheduler /\ InitChannels /\ InitTasks
    /\ InitReportRuns

SpecReports == InitReportsCheck /\ [][NextReports]_vars

----------------------------------------------------------------------------
(* Properties *)

Done(p) == req[p].pc = "done"

\* C1: two identical calls of calculate_team_metrics, calculate_sprint_metrics
\* or calculate_task_metrics less than a TTL apart run the calculators at
\* most once: the later call is served from the cache.
C1_SecondCallServedFromCache ==
    \A i \in 1..Len(aggLog), j \in 1..Len(aggLog) :
        (i < j /\ aggLog[i].fn = aggLog[j].fn /\ aggLog[i].args = aggLog[j].args
         /\ aggLog[j].at - aggLog[i].at < WorkloadExpire)
        => ~aggLog[j].ran

\* C2: a cached read of team data that starts after a write to the board
\* does not return a value computed before that write.
C2_NoStaleReadAfterWrite ==
    \A p \in Procs :
        (Done(p) /\ req[p].op \in {"workload", "historical"} /\ req[p].hit)
        => req[p].snapVer >= req[p].startVer

\* C3: analyze_task_blockers returns the cached analysis only when the task
\* was not updated after the cached marker; when it was, the call computes a
\* fresh analysis, overwrites the entry and returns the fresh analysis.
C3_StaleAnalysisRecomputed ==
    \A p \in Procs :
        (Done(p) /\ req[p].op = "blockers" /\ req[p].hit)
        => /\ (req[p].out = "ok" /\ req[p].val = PyNone) => ~req[p].stale
           /\ req[p].stale =>
                \/ /\ req[p].out = "ok"
                   /\ req[p].val # PyNone /\ req[p].res = req[p].val
                   /\ req[p].wrote \/ req[p].setFailed
                \/ /\ req[p].out = "error"
                   /\ req[p].err \in {"AssistantFailed", "SlackError"}

\* C5: every entry written by the agents expires exactly its bundle type's
\* TTL after it was written (team workload 15 minutes, task analysis 1 hour,
\* historical metrics 24 hours, sprint report 7 days), and no entry is in the
\* store, hence none is returned by a read, once its TTL has elapsed.
C5_TTL(kind) ==
    CASE kind = "team_workload"      -> 15 * 60
      [] kind = "task_analysis"      -> 60 * 60
      [] kind = "historical_metrics" -> 24 * 60 * 60
      [] kind = "sprint_report"      -> 7 * 24 * 60 * 60

C5_WritesCarryTTL ==
    \A k \in AgentKeys :
        store[k].val # PyNone
        => /\ store[k].exp = store[k].at + C5_TTL(k[1])
           /\ now < store[k].exp

\* an entry that has aged but not yet expired
C5_Witness ==
    \E k \in AgentKeys : store[k].val # PyNone /\ now > store[k].at

\* C6: two concurrent requests for the same key that both missed the cache
\* are about to write the same value.
C6_RacingWritesAgree ==
    \A p \in Procs, q \in Procs :
        (p # q /\ req[p].pc = "set" /\ req[q].pc = "set"
         /\ req[p].op = req[q].op /\ req[p].arg = req[q].arg)
        => req[p].val = req[q].val

\* C7: a cached operation during which the cache failed on get or on set
\* returns the result it computed, and raises only errors that do not come
\* from the cache.
C7_CacheFailureTolerated ==
    \A p \in Procs :
        (Done(p) /\ req[p].op \in {"workload", "historical", "blockers"}
         /\ (req[p].getFailed \/ req[p].setFailed))
        => \/ /\ req[p].out = "ok"
              /\ req[p].val # PyNone /\ req[p].res = req[p].val
           \/ /\ req[p].out = "error"
              /\ req[p].err \in {"DataUnavailable", "AssistantFailed", "SlackError"}

\* the workload was returned although both cache calls failed
C7_Witness ==
    \E p \in Procs :
        /\ Done(p) /\ req[p].op = "workload"
        /\ req[p].getFailed /\ req[p].setFailed
        /\ req[p].out = "ok" /\ req[p].res = req[p].val /\ req[p].val.t = "dict"

C9_InvalidWindowRejected ==
    \A i \in 1..Len(aggLog) :
        LET c == aggLog[i] IN
        /\ (c.fn = "team" /\ c.args[2] # NoDate /\ c.args[3] # NoDate
            /\ c.args[3] < c.args[2])
           => c.out = "InvalidWindow" /\ ~c.ran
        /\ (c.fn = "sprint" /\ c.args[1] \in SprintIds
            /\ Sprints[c.args[1]].end <= Sprints[c.args[1]].start)
           => c.out = "InvalidWindow" /\ ~c.ran

\* C10: check_velocity_alerts returns exactly one alert, velocity_drop of
\* severity high, when historical > 0 and the drop is strictly above 20%,
\* and no alert otherwise.
C10_DropOver20(c, h) == h > 0 /\ 5 * (h - c) > h

C10_VelocityAlert ==
    alertOut.done =>
        LET c == alertIn.current
            h == alertIn.historical
            a == alertOut.alerts
        IN /\ C10_DropOver20(c, h) =>
                 /\ Len(a) = 1
                 /\ a[1].type = "velocity_drop" /\ a[1].severity = "high"
           /\ ~C10_DropOver20(c, h) => a = <<>>
           /\ (c = 50 /\ h = 100) => Len(a) = 1
           /\ (c = 95 /\ h = 100) => a = <<>>
           /\ (c = 80 /\ h = 100) => a = <<>>

\* current 50 against historical 100 raised the alert
C10_Witness ==
    /\ alertOut.done /\ alertIn.current = 50 /\ alertIn.historical = 100
    /\ Len(alertOut.alerts) = 1

----------------------------------------------------------------------------
(* Quality alerts *)

HasAlert(ret, alert) == \E i \in 1..Len(ret.l) : ret.l[i] = alert

RatedQuality(q) ==
    /\ DictHas(q, "test_coverage") /\ IsNumber(DictGet(q, "test_coverage"))
    /\ DictHas(q, "rework_rate") /\ IsNumber(DictGet(q, "rework_rate"))

\* C11: check_quality_alerts returns a low_test_coverage alert of severity
\* medium exactly when test coverage is below 80, and a high_rework_rate alert
\* of severity high exactly when the rework rate is above 30%; at the
\* thresholds there is no alert.
C11_QualityAlerts ==
    (alertOut.done /\ alertOut.fn = "check_quality_alerts"
       /\ RatedQuality(DictGet(alertIn.sprint_metrics, "quality"))) =>
        LET q == DictGet(alertIn.sprint_metrics, "quality")
            c == DictGet(q, "test_coverage")
            r == DictGet(q, "rework_rate")
        IN /\ ~IsExc(alertOut.ret)
           /\ HasAlert(alertOut.ret, LowTestCoverageAlert) <=> Num(c) < 80 * Den(c)
           /\ HasAlert(alertOut.ret, HighReworkRateAlert) <=> Num(r) * 100 > 30 * Den(r)
           /\ \A i \in 1..Len(alertOut.ret.l) :
                 alertOut.ret.l[i] \in {LowTestCoverageAlert, HighReworkRateAlert}

C11_Witness ==
    /\ alertOut.done /\ alertOut.fn = "check_quality_alerts"
    /\ DictGet(alertIn.sprint_metrics, "quality")
         = PyDict(<< <<"test_coverage", PyInt(80)>>, <<"rework_rate", PyFloat(30, 100)>> >>)
    /\ alertOut.ret = PyList(<<>>)

\* C12: alert evaluation never raises when an input a rule needs is missing;
\* the rule is skipped and the remaining alerts are returned.
C12_MissingInputSkipped ==
    alertOut.done => ~IsExc(alertOut.ret)

----------------------------------------------------------------------------
(* Calculators *)

Calculated(fn) == calcOut # NoCalc /\ calcOut.fn = fn

\* C13: for every existing sprint the ideal series, the actual series and the
\* dates list of generate_burndown_data have the same length,
\* (end_date - start_date).days + 1.
C13_BurndownLengths ==
    (Calculated("generate_burndown_data") /\ calcIn.sprint # PyNone) =>
        LET n == Days(calcIn.sprint.end_date - calcIn.sprint.start_date) + 1
        IN /\ calcOut.out.raised = "none"
           /\ Len(calcOut.out.value.ideal) = n
           /\ Len(calcOut.out.value.actual) = n
           /\ Len(calcOut.out.value.dates) = n


InPercentRange(x) == ~RLess(x, RZero) /\ ~RLess(Ratio(100, 1), x)

\* C14: the quality score of a sprint and of a task is always within [0, 100],
\* including for a bug count of 1000 and for a coverage bonus that pushes the
\* raw formula above 100.
C14_QualityScoreRange ==
    (Calculated("calculate_quality_score") \/ Calculated("calculate_task_quality")) =>
        /\ calcOut.out.raised = "none"
        /\ InPercentRange(calcOut.out.value)

C14_Witness ==
    /\ Calculated("calculate_task_quality")
    /\ calcIn.task # PyNone
    /\ MetricsGet(calcIn.task.metrics, "bug_count", 0) = 1000
    /\ REq(calcOut.out.value, RZero)


\* C15: calculate_task_complexity returns a value within [0, 100] for every
\* task, including story_points > 13, more than 5 dependencies, more than 10
\* review comments, and every story_points value TaskUpdate lets through.
C15_ComplexityRange ==
    Calculated("calculate_task_complexity") =>
        /\ calcOut.out.raised = "none"
        /\ InPercentRange(calcOut.out.value)

InProgressEntries(h) ==
    Cardinality({i \in 1..Len(h) : h[i] = [field |-> "status", new_value |-> "in_progress"]})

\* C16: for every task history calculate_rework_rate returns max(0, n - 1),
\* n being the number of records with field = status and new_value =
\* in_progress: 0 for none or one, 1 for two.
C16_ReworkRate ==
    (Calculated("calculate_rework_rate") /\ calcIn.task # PyNone) =>
        LET n == InProgressEntries(calcIn.task.history)
        IN /\ calcOut.out.raised = "none"
           /\ n <= 1 => calcOut.out.value = 0
           /\ n >= 2 => calcOut.out.value = n - 1

C16_Witness ==
    /\ Calculated("calculate_rework_rate")
    /\ calcIn.task # PyNone
    /\ InProgressEntries(calcIn.task.history) = 2
    /\ Len(calcIn.task.history) = 3
    /\ calcOut.out.value = 1


NoCompletedSprint(sprints) == SelectSeq(sprints, IsCompleted) = <<>>

\* the input of the call is empty: an unknown id, no completed sprint, no done task
EmptyInput ==
    CASE calcIn.fn = "generate_burndown_data" -> calcIn.sprint = PyNone
      [] calcIn.fn = "calculate_quality_score" -> calcIn.tasks = <<>>
      [] calcIn.fn \in {"calculate_task_quality", "calculate_task_complexity",
                        "calculate_rework_rate"} -> calcIn.task = PyNone
      [] calcIn.fn = "calculate_velocity_stability" -> NoCompletedSprint(calcIn.sprints)
      [] calcIn.fn = "calculate_team_health" ->
            calcIn.team = PyNone \/ NoCompletedSprint(calcIn.sprints)
      [] calcIn.fn = "calculate_efficiency_metrics" -> calcIn.tasks = <<>>
      [] calcIn.fn = "calculate_trends" -> calcIn.sprints = <<>>
      [] OTHER -> FALSE

\* the zero-valued default of the calculator that was called
ZeroDefault(v) ==
    CASE calcIn.fn = "generate_burndown_data" ->
            v = [ideal |-> <<>>, actual |-> <<>>, dates |-> <<>>]
      [] calcIn.fn \in {"calculate_quality_score", "calculate_task_quality",
                        "calculate_task_complexity"} -> REq(v, RZero)
      [] calcIn.fn = "calculate_rework_rate" -> v = 0
      [] calcIn.fn = "calculate_velocity_stability" ->
            /\ REq(v.average_velocity, RZero)
            /\ REq(v.variability_squared, RZero)
            /\ REq(v.trend, RZero)
      [] calcIn.fn = "calculate_team_health" ->
            /\ REq(v.member_satisfaction, RZero)
            /\ REq(v.sprint_completion_rate, RZero)
            /\ REq(v.team_stability, RZero)
      [] calcIn.fn = "calculate_efficiency_metrics" ->
            /\ REq(v.cycle_time, RZero)
            /\ REq(v.throughput, RZero)
            /\ REq(v.work_in_progress, RZero)
      [] calcIn.fn = "calculate_trends" ->
            v = [velocity_trend |-> <<>>, quality_trend |-> <<>>,
                 efficiency_trend |-> <<>>]
      [] OTHER -> FALSE

\* calculate_team_health for a team that exists and has no completed sprint
HealthOfIdleTeam ==
    /\ calcIn.fn = "calculate_team_health"
    /\ calcIn.team # PyNone
    /\ NoCompletedSprint(calcIn.sprints)

LastTen(sprints) ==
    LET done == SelectSeq(sprints, IsCompleted)
        n == Len(done)
        k == IF n > 10 THEN 10 ELSE n
    IN [i \in 1..k |-> done[n + 1 - i].completed_points]

\* population standard deviation / mean * 100 > 25, squared and cleared of
\* denominators; false when the mean is 0
VariabilityOver25(v) ==
    LET n == Len(v)
        total == SumOver(v, 1)
        squares == SumOver([i \in 1..n |-> v[i] * v[i]], 1)
    IN total > 0 /\ 16 * (n * squares - total * total) > total * total

HasEntry(list, entry) == \E i \in 1..Len(list) : list[i] = entry

\* C18: generate_recommendations contains a velocity entry of severity high
\* exactly when the velocity variability of the last up-to-10 completed
\* sprints is strictly above 25; it is there for completed_points 80, 40, 60.
C18_VelocityRecommendation ==
    Calculated("generate_recommendations") =>
        /\ calcOut.out.raised = "none"
        /\ HasEntry(calcOut.out.value, VelocityRecommendation)
             <=> VariabilityOver25(LastTen(calcIn.sprints))
        /\ LastTen(calcIn.sprints) = <<60, 40, 80>>
             => HasEntry(calcOut.out.value, VelocityRecommendation)

C18_Witness ==
    /\ Calculated("generate_recommendations")
    /\ LastTen(calcIn.sprints) = <<60, 40, 80>>
    /\ HasEntry(calcOut.out.value, VelocityRecommendation)

\* C19: member_satisfaction, sprint_completion_rate and team_stability of
\* calculate_team_health are each within [0, 100], over-completion included.
C19_HealthPercentages ==
    Calculated("calculate_team_health") =>
        /\ calcOut.out.raised = "none"
        /\ InPercentRange(calcOut.out.value.member_satisfaction)
        /\ InPercentRange(calcOut.out.value.sprint_completion_rate)
        /\ InPercentRange(calcOut.out.value.team_stability)

\* C20 as stated: with at least two completed sprints in the window the trend
\* is (oldest - newest) / count; with fewer it is 0.0.
C20_TrendOldestMinusNewest ==
    Calculated("calculate_velocity_stability") =>
        LET v == LastTen(calcIn.sprints)
            n == Len(v)
        IN /\ calcOut.out.raised = "none"
           /\ IF n >= 2 THEN REq(calcOut.out.value.trend, Ratio(v[n] - v[1], n))
              ELSE REq(calcOut.out.value.trend, RZero)

\* C20: with at least two completed sprints in the window the trend of
\* calculate_velocity_stability is (newest - oldest) / count, positive when
\* velocity rose across the window; with fewer it is 0.0.
C20_TrendNewestMinusOldest ==
    Calculated("calculate_velocity_stability") =>
        LET v == LastTen(calcIn.sprints)
            n == Len(v)
        IN /\ calcOut.out.raised = "none"
           /\ IF n >= 2 THEN REq(calcOut.out.value.trend, Ratio(v[1] - v[n], n))
              ELSE REq(calcOut.out.value.trend, RZero)

C20_Witness ==
    /\ Calculated("calculate_velocity_stability")
    /\ LastTen(calcIn.sprints) = <<80, 60, 40>>
    /\ REq(calcOut.out.value.trend, Ratio(40, 3))


\* whole days between the earliest created_at and the latest updated_at
SpanDays(tasks) ==
    LET n == Len(tasks)
    IN (SeqMax([i \in 1..n |-> tasks[i].updated_at])
          - SeqMin([i \in 1..n |-> tasks[i].created_at])) \div 24

\* C21 as stated: with at least one done task, throughput is
\* count / (max(1, d) / 7), d the whole days spanned; 1/7 of a week when d = 0.
C21_ThroughputMaxOneDay ==
    (Calculated("calculate_efficiency_metrics") /\ calcIn.tasks # <<>>) =>
        LET d == SpanDays(calcIn.tasks)
        IN REq(calcOut.out.value.throughput,
               Ratio(7 * Len(calcIn.tasks), IF d > 1 THEN d ELSE 1))

\* C21: with at least one done task, throughput is count / (d / 7) when the
\* done tasks span d >= 1 whole days, and count (a span of one week) when d = 0.
C21_ThroughputOrOneWeek ==
    (Calculated("calculate_efficiency_metrics") /\ calcIn.tasks # <<>>) =>
        LET d == SpanDays(calcIn.tasks)
        IN /\ calcOut.out.raised = "none"
           /\ REq(calcOut.out.value.throughput,
                  IF d = 0 THEN Ratio(Len(calcIn.tasks), 1)
                  ELSE Ratio(7 * Len(calcIn.tasks), d))

C21_Witness ==
    /\ Calculated("calculate_efficiency_metrics")
    /\ Len(calcIn.tasks) = 2
    /\ SpanDays(calcIn.tasks) = 0
    /\ REq(calcOut.out.value.throughput, Ratio(2, 1))


RECURSIVE HoursIn(_, _)
HoursIn(tasks, s) ==
    IF tasks = <<>> THEN <<>>
    ELSE LET sc == SelectSeq(Head(tasks).history, LAMBDA h : h.field = "status")
             here == {i \in 1..(Len(sc) - 1) : sc[i].new_value = s}
             RECURSIVE Listed(_)
             Listed(i) == IF i >= Len(sc) THEN <<>>
                          ELSE (IF i \in here
                                THEN <<sc[i + 1].timestamp - sc[i].timestamp>>
                                ELSE <<>>) \o Listed(i + 1)
         IN Listed(1) \o HoursIn(Tail(tasks), s)

\* 24 * (number of spans) < (sum of the spans): the average is over 24 hours
AverageOver(tasks, s, hours) ==
    LET spans == HoursIn(tasks, s)
    IN /\ spans # <<>>
       /\ hours * Len(spans) < SumOver(spans, 1)

BottleneckStatuses == {"todo", "in_progress", "in_review", "done", "u1"}

\* C23: identify_bottlenecks returns one entry for exactly the statuses whose
\* average time in status is over 24 hours, with severity high when the average
\* is over 72 hours and medium otherwise, sorted by average time, largest first
C23_Bottlenecks ==
    Calculated("identify_bottlenecks") =>
        LET out == calcOut.out.value
        IN /\ calcOut.out.raised = "none"
           /\ \A s \in BottleneckStatuses :
                 Cardinality({i \in 1..Len(out) : out[i].status = s})
                    = (IF AverageOver(calcIn.tasks, s, 24) THEN 1 ELSE 0)
           /\ \A i \in 1..Len(out) :
                 /\ out[i].status \in BottleneckStatuses
                 /\ out[i].severity = (IF AverageOver(calcIn.tasks, out[i].status, 72)
                                       THEN "high" ELSE "medium")
                 /\ i < Len(out) => ~RLess(out[i].average_time, out[i + 1].average_time)

\* two bottlenecks of different severities, and a status at an average of
\* exactly 24 hours that is none
C23_Witness ==
    /\ Calculated("identify_bottlenecks")
    /\ calcOut.out.raised = "none"
    /\ Len(calcOut.out.value) = 2
    /\ calcOut.out.value[1].severity = "high"
    /\ calcOut.out.value[2].severity = "medium"
    /\ \E s \in BottleneckStatuses :
          /\ HoursIn(calcIn.tasks, s) # <<>>
          /\ SumOver(HoursIn(calcIn.tasks, s), 1) = 24 * Len(HoursIn(calcIn.tasks, s))

\* the set of non-null (name, value) parameters of a call
NonNullParams(call) ==
    {call.kwargs[i] : i \in {j \in 1..Len(call.kwargs) : call.kwargs[j][2] # PyNone}}

SameCall(a, b) == a.prefix = b.prefix /\ NonNullParams(a) = NonNullParams(b)

\* C24: two calls of get_cache_key return the same key if and only if they
\* have the same prefix and the same set of non-null parameters
C24_SameKeyIffSameParams ==
    Calculated("get_cache_key") =>
        ((calcOut.out.value[1] = calcOut.out.value[2])
            <=> SameCall(calcIn.calls[1], calcIn.calls[2]))

\* the half of C24 the key does have: the same prefix and the same set of
\* non-null parameters give the same key, in any order and with any nulls added
SameParamsSameKey ==
    (Calculated("get_cache_key") /\ SameCall(calcIn.calls[1], calcIn.calls[2]))
        => calcOut.out.value[1] = calcOut.out.value[2]

\* the content number a returned board carries
ContentIn(res) ==
    CHOOSE c \in BoardContents : DictGet(res, "name") = PyStr(<<ToString(c)>>)

GotBoard(p) ==
    /\ boardReq[p].op = "get_board"
    /\ boardReq[p].pc = "done"
    /\ boardReq[p].res.t = "dict"

\* C25: a get_board that started after an update_board had committed and
\* returned never returns content older than that update's
C25_NoStaleBoard ==
    \A p \in BoardProcs : GotBoard(p) => ContentIn(boardReq[p].res) >= boardReq[p].floor

\* a get_board that started after a finished update returned a board, while
\* another get_board returned the content it had read before that update
C25_Witness ==
    \E p, q \in BoardProcs :
        /\ GotBoard(p) /\ boardReq[p].floor > 0
        /\ GotBoard(q) /\ q # p
        /\ ContentIn(boardReq[q].res) < boardReq[p].floor

\* C26: whenever the key login_attempts:<email> exists it has an expiry set
C26_CounterHasExpiry ==
    loginKey.val # PyNone => loginKey.exp # NoExpiry

\* the email is locked out and nothing will ever drop the counter
LockedForGood ==
    /\ loginKey.val # PyNone
    /\ ParseInt(loginKey.val.s) >= MAX_LOGIN_ATTEMPTS
    /\ loginKey.exp = NoExpiry

\* C27: after pause_pipeline returned True, get_pipeline_status reports paused
\* until resume_pipeline or remove_pipeline is called for the pipeline
C27_PausedStaysPaused ==
    \A n \in pausedOk : get_pipeline_status(n) = PyStr("paused")

\* C28: a user is in channel_presence[c] exactly when a websocket that this
\* user connected to channel c is still in channel_connections[c]
C28_PresenceIffConnected ==
    \A c \in Channels, u \in Users :
        u \in get_channel_presence(c)
            <=> \E w \in MembersOf(channel_connections, c) : <<w, c, u>> \in accepted

\* the half of it that breaks when a user closes one of two websockets
C28_ConnectedIsPresent ==
    \A c \in Channels, u \in Users :
        (\E w \in MembersOf(channel_connections, c) : <<w, c, u>> \in accepted)
            => u \in get_channel_presence(c)

\* the half of it that breaks when a broadcast drops a closed websocket
C28_PresentIsConnected ==
    \A c \in Channels, u \in Users :
        u \in get_channel_presence(c)
            => \E w \in MembersOf(channel_connections, c) : <<w, c, u>> \in accepted

\* a status change update_task accepts for some request
Accepted(from, to) ==
    /\ from # to
    /\ \E lookup \in TaskLookups, allowed \in BOOLEAN, fail \in BOOLEAN :
          update_task_response(from, to, lookup, allowed, fail) = 200

\* the statuses reachable from those of S through accepted changes
RECURSIVE ReachableFrom(_)
ReachableFrom(S) ==
    LET T == S \cup {to \in TaskStatusValues : \E from \in S : Accepted(from, to)}
    IN IF T = S THEN S ELSE ReachableFrom(T)

\* C29: from the status of every task, done is reachable through a sequence
\* of status changes that update_task accepts
C29_DoneReachable ==
    \A k \in Tasks : TaskStatus.DONE \in ReachableFrom({taskStatus[k]})

\* update_task never changes a status: whatever is requested, a task keeps
\* the status it had
StatusNeverChanges == [][taskStatus' = taskStatus]_vars

\* C30: when a scheduled report is over, every team of the list whose own
\* processing raises no error (and that the loop does not pass over) has had
\* its report sent, whatever happened to the teams before it
C30_OtherTeamsProcessed ==
    (report.kind # "none" /\ report.state \in {"failed", "returned"})
        => \A i \in 1..Len(report.teams) :
              (/\ ~Skipped(report.kind, report.teams[i])
               /\ ~TeamRaises(report.kind, report.teams[i]))
                  => i \in report.sent

====
